---------------------------- MODULE Spec2Model ----------------------------
(***************************************************************************)
(* Model of the chat / recommendation subsystem of the Duvut assistant:    *)
(* src/src/providers/OllamaProvider.ts.                                    *)
(*                                                                         *)
(* Text is modelled by TLA+ strings, read as sequences of characters       *)
(* (Len, SubSeq and \o apply to them), so that the string functions of the *)
(* source (includes, indexOf, trim, split, replace, the regular            *)
(* expressions) are computed character by character as the code does.      *)
(***************************************************************************)
EXTENDS Integers, Sequences, FiniteSets, TLC

(***************************************************************************)
(* JavaScript string primitives used by the provider.                      *)
(***************************************************************************)
SetMin(S) == CHOOSE m \in S : \A n \in S : m <= n

SetMax(S) == CHOOSE m \in S : \A n \in S : m >= n

\* the least and the greatest of a set of positions; 0 for the empty set
FirstOf(S) == IF S = {} THEN 0 ELSE SetMin(S)

LastOf(S) == IF S = {} THEN 0 ELSE SetMax(S)

\* the characters i..j of s, clipped to the string as the substring method
\* and slice clip their bounds
Sub(s, i, j) ==
    LET clipped(lo, hi) == IF lo > hi THEN "" ELSE SubSeq(s, lo, hi)
    IN  clipped(IF i < 1 THEN 1 ELSE i, IF j > Len(s) THEN Len(s) ELSE j)

CharAt(s, i) == Sub(s, i, i)

CharsOf(s) == {CharAt(s, i) : i \in 1..Len(s)}

\* s.startsWith(p)
StartsWith(s, p) == Len(p) <= Len(s) /\ Sub(s, 1, Len(p)) = p

\* s.endsWith(p)
EndsWith(s, p) == Len(p) <= Len(s) /\ Sub(s, Len(s) - Len(p) + 1, Len(s)) = p

\* s.indexOf(sub, from), 1-based; 0 stands for JavaScript's -1
IndexOfFrom(s, sub, from) ==
    FirstOf({i \in from..(Len(s) - Len(sub) + 1) : Sub(s, i, i + Len(sub) - 1) = sub})

IndexOf(s, sub) == IndexOfFrom(s, sub, 1)

\* s.lastIndexOf(sub), 1-based; 0 stands for -1
LastIndexOf(s, sub) ==
    LastOf({i \in 1..(Len(s) - Len(sub) + 1) : Sub(s, i, i + Len(sub) - 1) = sub})

\* s.includes(sub)
Includes(s, sub) == IndexOf(s, sub) # 0

\* the characters matched by \s that the model's texts can contain
WhiteSpace == {" ", "\t", "\n", "\r", "\f"}

LowerLetters == "abcdefghijklmnopqrstuvwxyz"

UpperLetters == "ABCDEFGHIJKLMNOPQRSTUVWXYZ"

Digits == "0123456789"

\* [a-zA-Z0-9_], the class \w
WordChars == CharsOf(LowerLetters) \cup CharsOf(UpperLetters) \cup CharsOf(Digits) \cup {"_"}

\* [a-zA-Z0-9_-]
FileNameChars == WordChars \cup {"-"}

\* s.trim()
Trim(s) ==
    LET between(keep) == IF keep = {} THEN "" ELSE Sub(s, SetMin(keep), SetMax(keep))
    IN  between({i \in 1..Len(s) : CharAt(s, i) \notin WhiteSpace})

\* one character of s.toLowerCase()
LowerChar(c) ==
    LET at(i) == IF i = 0 THEN c ELSE CharAt(LowerLetters, i)
    IN  at(IndexOf(UpperLetters, c))

RECURSIVE ToLowerCase(_)
\* s.toLowerCase()
ToLowerCase(s) ==
    IF s = "" THEN "" ELSE LowerChar(CharAt(s, 1)) \o ToLowerCase(Tail(s))

RECURSIVE SplitFrom(_, _, _)
\* the pieces of s from position start on, cut at every character of seps
SplitFrom(s, seps, start) ==
    LET cutAt(cut) ==
            IF cut = 0 THEN <<Sub(s, start, Len(s))>>
            ELSE <<Sub(s, start, cut - 1)>> \o SplitFrom(s, seps, cut + 1)
    IN  cutAt(FirstOf({i \in start..Len(s) : CharAt(s, i) \in seps}))

\* s.split(/[...]/) for a class of single characters
Split(s, seps) == SplitFrom(s, seps, 1)

RECURSIVE Join(_, _)
\* parts.join(sep)
Join(parts, sep) ==
    IF Len(parts) = 0 THEN ""
    ELSE IF Len(parts) = 1 THEN parts[1]
    ELSE parts[1] \o sep \o Join(Tail(parts), sep)

\* the length of the longest run of characters of class cls starting at position i
RunLen(s, i, cls) ==
    LET upTo(stop) == IF stop = 0 THEN Len(s) - i + 1 ELSE stop - i
    IN  upTo(FirstOf({j \in i..Len(s) : CharAt(s, j) \notin cls}))

(***************************************************************************)
(* Path Plausibility Classifier: _isValidFilePath.                         *)
(***************************************************************************)
\* a Classifier that bans no command word
NoCommandWords == {}

commandWords ==
    {"python", "node", "npm", "yarn", "go", "rustc", "cargo", "java", "javac", "gcc",
     "g++", "clang", "clang++", "php", "ruby", "perl", "bash", "sh", "zsh", "fish",
     "powershell", "cmd"}

unlikelyWords ==
    {"creates", "checks", "user", "required", "permission", "middleware", "function",
     "validates", "authenticates", "authorizes", "run", "execute", "command",
     "terminal", "shell"}

validExtensions ==
    {".js", ".ts", ".jsx", ".tsx", ".py", ".pyw", ".pyi", ".java", ".kt", ".groovy",
     ".cpp", ".c", ".h", ".hpp", ".cc", ".cxx", ".m", ".mm", ".cs", ".csproj", ".sln",
     ".go", ".mod", ".sum", ".rs", ".toml", ".php", ".phtml", ".rb", ".erb", ".gemspec",
     ".swift", ".playground", ".scala", ".sbt", ".dart", ".html", ".htm", ".css",
     ".scss", ".sass", ".less", ".vue", ".svelte", ".json", ".xml", ".yaml", ".yml",
     ".ini", ".cfg", ".conf", ".md", ".rst", ".txt", ".sh", ".bash", ".zsh", ".fish",
     ".ps1", ".bat", ".cmd", ".sql", ".db", ".sqlite", ".dockerfile", ".dockerignore",
     ".gitignore", ".gitattributes", "package.json", "requirements.txt", "Pipfile",
     "Gemfile", "composer.json", "pubspec.yaml"}

\* the separators of path.split(/[\s\/\\\.]/)
PathWordSeparators == WhiteSpace \cup {"/", "\\", "."}

commandLinePrefixes ==
    {"python ", "node ", "go ", "npm ", "yarn ", "cargo ", "java ", "gcc ", "g++ "}

\* /^[a-zA-Z0-9_-]+(\.[a-zA-Z0-9_-]+)*$/.test(path)
looksLikeFileName(path) ==
    /\ path # ""
    /\ \A i \in 1..Len(path) : CharAt(path, i) \in FileNameChars \cup {"."}
    /\ ~StartsWith(path, ".")
    /\ ~EndsWith(path, ".")
    /\ ~Includes(path, "..")

_isValidFilePath(path) ==
    LET hasPathSeparator == Includes(path, "/") \/ Includes(path, "\\")
        isAbsolutePath ==
            StartsWith(path, "/") \/ StartsWith(path, "C:") \/ StartsWith(path, "D:")
        hasUnlikelyWords(words) ==
            \E i \in 1..Len(words) : words[i] \in unlikelyWords /\ Len(words[i]) > 3
        classified(firstWord, hasValidExtension) ==
            /\ Len(Trim(path)) # 0
            /\ ~(StartsWith(path, "//") \/ StartsWith(path, "#"))
            /\ ~(Includes(path, "<") \/ Includes(path, ">"))
            /\ ~(Includes(path, "  ") \/ StartsWith(path, " ") \/ EndsWith(path, " "))
            /\ firstWord \notin commandWords
            /\ ~hasUnlikelyWords(Split(ToLowerCase(path), PathWordSeparators))
            /\ ~(\/ Includes(path, "http://") \/ Includes(path, "https://")
                 \/ Includes(path, "curl") \/ Includes(path, "localhost"))
            /\ ~(\E c \in commandLinePrefixes : Includes(path, c))
            /\ \/ hasValidExtension
               \/ (hasPathSeparator /\ Len(path) > 3)
               \/ (looksLikeFileName(path) /\ Len(path) > 2)
               \/ (isAbsolutePath /\ hasValidExtension)
    IN  classified(ToLowerCase(Split(path, PathWordSeparators)[1]),
                   \E ext \in validExtensions : EndsWith(path, ext))

(***************************************************************************)
(* Tool calls: _isValidToolCall and the inner text of a call.              *)
(***************************************************************************)
ToolTypes == {"read_file", "write_file", "open_file"}

OpeningTag(toolType) == "<" \o toolType \o ">"

ClosingTag(toolType) == "</" \o toolType \o ">"

\* a validator that accepts every buffered call
AnyToolCall(toolCall, toolType) == TRUE

_isValidToolCall(toolCall, toolType) ==
    LET hasContent(contentStart, contentEnd) ==
            /\ contentStart < contentEnd
            /\ Trim(Sub(toolCall, contentStart, contentEnd - 1)) # ""
        tagged(openingTag, closingTag) ==
            /\ Includes(toolCall, openingTag)
            /\ Includes(toolCall, closingTag)
            /\ hasContent(IndexOf(toolCall, openingTag) + Len(openingTag),
                          IndexOf(toolCall, closingTag))
    IN  tagged(OpeningTag(toolType), ClosingTag(toolType))

RECURSIVE RemoveTags(_, _)
\* s.replace(/<\/?toolType>/g, ''): one pass, left to right
RemoveTags(s, toolType) ==
    LET cut(first, tagLen) ==
            IF first = 0 THEN s
            ELSE Sub(s, 1, first - 1) \o RemoveTags(Sub(s, first + tagLen, Len(s)), toolType)
        firstTag(o, c) ==
            IF o = 0 \/ (c # 0 /\ c < o) THEN cut(c, Len(ClosingTag(toolType)))
            ELSE cut(o, Len(OpeningTag(toolType)))
    IN  firstTag(IndexOf(s, OpeningTag(toolType)), IndexOf(s, ClosingTag(toolType)))

\* toolCall.replace(/<\/?toolType>/g, '').trim()
ToolCallInner(toolCall, toolType) == Trim(RemoveTags(toolCall, toolType))

\* _handleFileWriteRequest: lines[0].trim()
WriteRequestPath(content) == Trim(Split(content, {"\n"})[1])

\* a file content that keeps the line of the path
WholeWriteRequest(content) == content

\* _handleFileWriteRequest: lines.slice(1).join('\n')
WriteRequestContent(content) == Join(Tail(Split(content, {"\n"})), "\n")

(***************************************************************************)
(* Code-Block Recommendation Extractor: _detectCodeRecommendations.        *)
(***************************************************************************)
\* The grave accent cannot be written inside a TLA+ string: the texts of the
\* model write ~ for it. Like the grave accent, ~ is outside every character
\* class the code tests (\w, \s, the path separators, the comment markers,
\* the angle brackets), and no text of the model uses ~ for anything else.
BackTick == "~"

Fence == BackTick \o BackTick \o BackTick

\* does one of the tags <open_file>, <write_file>, <read_file> start at position p
OpeningTagAt(s, p) ==
    \E t \in ToolTypes : Sub(s, p, p + Len(OpeningTag(t)) - 1) = OpeningTag(t)

OpeningTagLenAt(s, p) ==
    Len(OpeningTag(CHOOSE t \in ToolTypes : Sub(s, p, p + Len(OpeningTag(t)) - 1) = OpeningTag(t)))

ClosingTagAt(s, p) ==
    \E t \in ToolTypes : Sub(s, p, p + Len(ClosingTag(t)) - 1) = ClosingTag(t)

ClosingTagLenAt(s, p) ==
    Len(ClosingTag(CHOOSE t \in ToolTypes : Sub(s, p, p + Len(ClosingTag(t)) - 1) = ClosingTag(t)))

\* One attempt of codeBlockRegex = /~~~(\w+)?\s*([^\n]+)?\n([\s\S]*?)~~~/g at
\* position p, for a language group of a characters and w characters of \s*
\* (a = 0: the group does not take part). The header group is the whole run
\* of characters other than \n that follows, as [^\n]+ has to be followed by \n.
FenceAttempt(s, p, a, w) ==
    LET closedAt(h0, h, bodyStart, close) ==
            [ok |-> CharAt(s, h0 + h) = "\n" /\ close # 0,
             language |-> Sub(s, p + 3, p + 2 + a),
             header |-> Sub(s, h0, h0 + h - 1),
             code |-> Sub(s, bodyStart, close - 1),
             end |-> close + 3]
        headerRun(h0, h) == closedAt(h0, h, h0 + h + 1, IndexOfFrom(s, Fence, h0 + h + 1))
        headerAt(h0) == headerRun(h0, RunLen(s, h0, CharsOf(s) \ {"\n"}))
    IN  headerAt(p + 3 + a + w)

\* The match of codeBlockRegex at position p: the quantifiers are greedy, so
\* the engine prefers the longest language group, then the longest \s* run.
FenceMatchAt(s, p) ==
    LET wsAfter(a) == RunLen(s, p + 3 + a, WhiteSpace)
        longest(good, bestA) ==
            FenceAttempt(s, p, bestA, SetMax({aw[2] : aw \in {g \in good : g[1] = bestA}}))
        best(good) ==
            IF Sub(s, p, p + 2) # Fence \/ good = {}
            THEN [ok |-> FALSE, language |-> "", header |-> "", code |-> "", end |-> 0]
            ELSE longest(good, SetMax({aw[1] : aw \in good}))
        among(attempts) == best({aw \in attempts : FenceAttempt(s, p, aw[1], aw[2]).ok})
    IN  among(UNION {{<<a, w>> : w \in 0..wsAfter(a)} : a \in 0..RunLen(s, p + 3, WordChars)})

RECURSIVE CodeBlocksFrom(_, _)
\* the successive matches of codeBlockRegex.exec(response), from position from
CodeBlocksFrom(s, from) ==
    LET matched(p, m) ==
            IF m.ok
            THEN <<[language |-> m.language, header |-> m.header, code |-> m.code]>>
                 \o CodeBlocksFrom(s, m.end)
            ELSE CodeBlocksFrom(s, p + 1)
        fenceAt(p) == IF p = 0 THEN <<>> ELSE matched(p, FenceMatchAt(s, p))
    IN  fenceAt(IndexOfFrom(s, Fence, from))

CodeBlocks(response) == CodeBlocksFrom(response, 1)

\* The match at position p of toolCallRegex =
\* /<(?:open_file|write_file|read_file)>([^<\s]+)[^<]*<\/(?:open_file|write_file|read_file)>/
ToolCallMatchAt(s, p) ==
    LET span(g0, g, lt) ==
            IF OpeningTagAt(s, p) /\ g >= 1 /\ ClosingTagAt(s, lt)
            THEN [ok |-> TRUE, path |-> Sub(s, g0, g0 + g - 1),
                  end |-> lt + ClosingTagLenAt(s, lt)]
            ELSE [ok |-> FALSE, path |-> "", end |-> 0]
        groupAt(g0) == span(g0, RunLen(s, g0, CharsOf(s) \ (WhiteSpace \cup {"<"})),
                            g0 + RunLen(s, g0, CharsOf(s) \ {"<"}))
    IN  groupAt(p + OpeningTagLenAt(s, p))

RECURSIVE ToolCallSpansFrom(_, _)
\* group 1 of the successive matches of toolCallRegex.exec(response)
ToolCallSpansFrom(s, from) ==
    LET matched(p, m) ==
            IF m.ok THEN <<m.path>> \o ToolCallSpansFrom(s, m.end)
            ELSE ToolCallSpansFrom(s, p + 1)
        tagAt(p) == IF p = 0 THEN <<>> ELSE matched(p, ToolCallMatchAt(s, p))
    IN  tagAt(IndexOfFrom(s, "<", from))

RECURSIVE AddAll(_, _)
\* Set.add of every valid path of spans, in insertion order
AddAll(paths, spans) ==
    LET add(extractedPath) ==
            IF /\ _isValidFilePath(extractedPath)
               /\ ~(\E i \in 1..Len(paths) : paths[i] = extractedPath)
            THEN Append(paths, extractedPath) ELSE paths
    IN  IF spans = <<>> THEN paths ELSE AddAll(add(Trim(Head(spans))), Tail(spans))

\* first pass: the set toolCallPaths, kept in iteration (insertion) order
ToolCallPaths(response) == AddAll(<<>>, ToolCallSpansFrom(response, 1))

\* s.substring(a, b) with 0-based arguments: they are clipped to 0..length
\* and swapped when a > b
JsSubstring(s, a, b) ==
    LET clip(n) == IF n < 0 THEN 0 ELSE IF n > Len(s) THEN Len(s) ELSE n
        lo == IF clip(a) < clip(b) THEN clip(a) ELSE clip(b)
        hi == IF clip(a) < clip(b) THEN clip(b) ELSE clip(a)
    IN  Sub(s, lo + 1, hi)

\* header.replace(/^[#\/\/\s]+/, '').trim()
CleanedHeader(header) ==
    Trim(Sub(header, RunLen(header, 1, WhiteSpace \cup {"#", "/"}) + 1, Len(header)))

\* step (a): the header as given, or without its leading comment marker
HeaderPath(header) ==
    LET cleanedPath(cleaned) ==
            IF cleaned # "" /\ _isValidFilePath(cleaned) THEN cleaned ELSE ""
    IN  IF header = "" THEN ""
        ELSE IF _isValidFilePath(header) THEN Trim(header)
        ELSE cleanedPath(CleanedHeader(header))

\* header.match(/<(?:open_file|write_file|read_file)>([^<]+)<\/(?:open_file|write_file|read_file)>/)
HeaderToolCall(header) ==
    LET inner(p) == RunLen(header, p + OpeningTagLenAt(header, p), CharsOf(header) \ {"<"})
        group(p0, g0) == [found |-> TRUE, path |-> Trim(Sub(header, g0, g0 + inner(p0) - 1))]
        matchAt(p0) ==
            IF p0 = 0 THEN [found |-> FALSE, path |-> ""]
            ELSE group(p0, p0 + OpeningTagLenAt(header, p0))
    IN  matchAt(FirstOf({p \in 1..Len(header) :
                            /\ OpeningTagAt(header, p)
                            /\ inner(p) >= 1
                            /\ ClosingTagAt(header, p + OpeningTagLenAt(header, p) + inner(p))}))

\* header.match(/<(?:open_file|write_file|read_file)>([^<\s]+)/)
HeaderIncompleteToolCall(header) ==
    LET inner(p) == RunLen(header, p + OpeningTagLenAt(header, p),
                           CharsOf(header) \ (WhiteSpace \cup {"<"}))
        group(p0, g0) == [found |-> TRUE, path |-> Trim(Sub(header, g0, g0 + inner(p0) - 1))]
        matchAt(p0) ==
            IF p0 = 0 THEN [found |-> FALSE, path |-> ""]
            ELSE group(p0, p0 + OpeningTagLenAt(header, p0))
    IN  matchAt(FirstOf({p \in 1..Len(header) : OpeningTagAt(header, p) /\ inner(p) >= 1}))

\* step (b): a complete, then a truncated tool-call tag in the header
HeaderToolCallPath(header) ==
    LET pathOf(complete, incomplete) ==
            IF complete.found /\ _isValidFilePath(complete.path) THEN complete.path
            ELSE IF incomplete.found /\ _isValidFilePath(incomplete.path) THEN incomplete.path
            ELSE ""
    IN  IF header = "" THEN ""
        ELSE pathOf(HeaderToolCall(header), HeaderIncompleteToolCall(header))

\* the number of leading body lines searched for a path comment
CommentScanLines == 5

\* the comment text of a trimmed body line; "" when the line is no comment
CommentOf(line) ==
    IF StartsWith(line, "//") THEN Trim(Sub(line, 3, Len(line)))
    ELSE IF StartsWith(line, "#") THEN Trim(Sub(line, 2, Len(line)))
    ELSE IF StartsWith(line, "<!--") THEN Trim(JsSubstring(line, 4, LastIndexOf(line, "-->") - 1))
    ELSE ""

\* comment.includes('.') || /^[a-zA-Z0-9_-]+$/.test(comment), then the Classifier
IsPathComment(comment) ==
    /\ comment # ""
    /\ \/ Includes(comment, ".")
       \/ \A i \in 1..Len(comment) : CharAt(comment, i) \in FileNameChars
    /\ _isValidFilePath(comment)

\* step (c): the first of the leading body lines whose comment is a valid path
CommentPath(code) ==
    LET comment(lines, i) == CommentOf(Trim(lines[i]))
        firstPath(lines, hit) == IF hit = 0 THEN "" ELSE comment(lines, hit)
        scan(lines, limit) ==
            firstPath(lines, FirstOf({i \in 1..limit : IsPathComment(comment(lines, i))}))
        linesOf(lines) ==
            scan(lines, IF Len(lines) < CommentScanLines THEN Len(lines) ELSE CommentScanLines)
    IN  linesOf(Split(code, {"\n"}))

languageExtensions ==
    [javascript |-> ".js", js |-> ".js", typescript |-> ".ts", ts |-> ".ts",
     python |-> ".py", py |-> ".py", go |-> ".go", golang |-> ".go", java |-> ".java",
     cpp |-> ".cpp", c |-> ".c", csharp |-> ".cs", cs |-> ".cs", php |-> ".php",
     ruby |-> ".rb", rb |-> ".rb", rust |-> ".rs", rs |-> ".rs", swift |-> ".swift",
     kotlin |-> ".kt", kt |-> ".kt", scala |-> ".scala", dart |-> ".dart",
     html |-> ".html", css |-> ".css", json |-> ".json", yaml |-> ".yaml",
     yml |-> ".yml", markdown |-> ".md", md |-> ".md", bash |-> ".sh", shell |-> ".sh",
     sh |-> ".sh", powershell |-> ".ps1", ps1 |-> ".ps1", sql |-> ".sql",
     dockerfile |-> ".dockerfile", gitignore |-> ".gitignore",
     gitattributes |-> ".gitattributes"]

\* the additional keys of the table of _generateDefaultFileName
packageFileNames ==
    {"package.json", "requirements.txt", "Pipfile", "Gemfile", "composer.json", "pubspec.yaml"}

\* table[key] || '.txt' on an object literal: a key the literal does not have
\* is looked up on Object.prototype, where two lower-case names are found
PrototypeLookup(key) ==
    IF key = "constructor" THEN "function Object() { [native code] }"
    ELSE IF key = "__proto__" THEN "[object Object]"
    ELSE ".txt"

_getExpectedExtension(language) ==
    LET lookup(key) ==
            IF key \in DOMAIN languageExtensions THEN languageExtensions[key]
            ELSE PrototypeLookup(key)
    IN  lookup(ToLowerCase(language))

_generateDefaultFileName(language, code, blockIndex) ==
    LET lookup(key) ==
            IF key \in DOMAIN languageExtensions THEN languageExtensions[key]
            ELSE IF key \in packageFileNames THEN key
            ELSE PrototypeLookup(key)
    IN  "code" \o ToString(blockIndex) \o lookup(ToLowerCase(language))

codeStructureTokens ==
    {"def ", "class ", "function ", "import ", "from ", "package ", "func ", "public ",
     "private ", "const ", "let ", "var ", "if ", "for ", "while ",
     "{", "}", "(", ")", "=", "+", "-", "*", "/"}

hasCodeStructure(code) == \E t \in codeStructureTokens : Includes(code, t)

isOnlyMarkdown(code) ==
    /\ Includes(code, "# ") \/ Includes(code, "## ") \/ Includes(code, "### ")
    /\ ~hasCodeStructure(code)
    /\ \A t \in {"package ", "import ", "func ", "func(", "def ", "class ", "function ",
                 "const ", "let ", "var "} : ~Includes(code, t)

\* the least body length (exclusive) for which a path is adopted or synthesized
MinDefaultCodeLength == 50

\* steps (d) and (e): a known tool-call path with the expected extension,
\* otherwise the synthesized name
DefaultPath(language, code, blockCount, toolCallPaths) ==
    LET known(hit) ==
            IF hit # 0 THEN toolCallPaths[hit]
            ELSE _generateDefaultFileName(language, code, blockCount)
        withExtension(expectedExtension) ==
            known(FirstOf({i \in 1..Len(toolCallPaths) :
                              EndsWith(toolCallPaths[i], expectedExtension)}))
    IN  IF language = "" \/ Len(Trim(code)) <= MinDefaultCodeLength THEN ""
        ELSE IF ~(~isOnlyMarkdown(code) /\ hasCodeStructure(code)) THEN ""
        ELSE withExtension(_getExpectedExtension(language))

\* the target path of one fenced block; "" when none is found
ResolvePath(block, blockCount, toolCallPaths) ==
    LET fromComment(path) ==
            IF path # "" THEN path
            ELSE DefaultPath(block.language, block.code, blockCount, toolCallPaths)
        fromToolCall(path) == IF path # "" THEN path ELSE fromComment(CommentPath(block.code))
        fromHeader(path) ==
            IF path # "" THEN path ELSE fromToolCall(HeaderToolCallPath(block.header))
    IN  fromHeader(HeaderPath(block.header))

RECURSIVE Recommendations(_, _, _)
\* second pass: the recommendations of the blocks from index blockCount on
Recommendations(blocks, blockCount, toolCallPaths) ==
    LET found(block, filePath, rest) ==
            IF filePath # ""
            THEN <<[filePath |-> Trim(filePath), code |-> block.code,
                    language |-> block.language]>> \o rest
            ELSE rest
    IN  IF blockCount > Len(blocks) THEN <<>>
        ELSE found(blocks[blockCount],
                   ResolvePath(blocks[blockCount], blockCount, toolCallPaths),
                   Recommendations(blocks, blockCount + 1, toolCallPaths))

\* is the recommendation an echo of tool-call markup
IsToolCallBlock(rec) ==
    \/ /\ rec.language = "bash"
       /\ \E t \in ToolTypes : Includes(rec.code, OpeningTag(t))
    \/ StartsWith(Trim(rec.code), "<") /\ EndsWith(Trim(rec.code), ">")

\* the extractor without its deduplication loop: every recommendation is kept
AllRecommendations(recs, seenPaths) == recs

RECURSIVE UniqueRecommendations(_, _)
\* the deduplication loop: recs still to visit, seenPaths so far
UniqueRecommendations(recs, seenPaths) ==
    LET visit(rec) ==
            IF rec.filePath \in seenPaths \/ IsToolCallBlock(rec)
            THEN UniqueRecommendations(Tail(recs), seenPaths)
            ELSE <<rec>> \o UniqueRecommendations(Tail(recs), seenPaths \cup {rec.filePath})
    IN  IF recs = <<>> THEN <<>> ELSE visit(Head(recs))

_detectCodeRecommendations(response) ==
    UniqueRecommendations(
        Recommendations(CodeBlocks(response), 1, ToolCallPaths(response)), {})


(***************************************************************************)
(* Bounds of the model and the inputs it draws.                            *)
(***************************************************************************)
\* chat turns started in one run
MaxTurns == 2

\* advances of the clock in one run
MaxTicks == 1

\* chat turns in one run of callers that wait for a turn to end
MaxSessions == 1

\* one advance of Date.now(), in milliseconds
TickMs == 60000

\* Date.now() when the provider is constructed
StartTime == 1

\* invocations of getSuggestions that may overlap
MaxCalls == 2

\* stretches of time the editor lets pass between completion requests
MaxWaits == 2

\* CodeCompletionService.debounceDelay: the default of the setting, in milliseconds
debounceDelay == 500

\* the values of Math.random().toString(36).substr(2, 9) the model draws
RandomSuffixes == {"k3j5h2g8x"}

\* the id testCodeRecommendationDetection passes to _promptForCodeApplication
TestRequestId == "test_req_id"

\* a path no response of the model recommends
UnknownPath == "x.py"

\* The responses the model's transport delivers, each as its sequence of
\* fragments: two blocks for main.go and one for config.yaml; a write_file
\* call to a plausible and one to an implausible path.
Streams ==
    {<<"~~~go main.go\nA\n~~~\n", "~~~go main.go\nB\n~~~\n~~~yaml config.yaml\nport: 8080\n~~~">>,
     <<"<write_file>notes.txt\nhi</write_file>", "<write_file>curl x\nhi</write_file>">>}

\* The responses of the turns of ToolSpec, as the transport fragments them: a
\* read_file call whole, with its opening tag split and with its closing tag
\* split; an open_file call during which a read_file tag arrives; an
\* unterminated call; a call with blank content; a call whose path is a
\* sentence; a write_file call closed by the tag of another kind; a
\* write_file call; a read_file call after a line of text in the same
\* fragment; a write_file call with a content of two lines; a read_file call
\* and an open_file call in two fragments.
ToolStreams ==
    {<<"<read_file>a.txt</read_file>">>,
     <<"<read_file>a.txt</read_file>", "<open_file>app.py</open_file>">>,
     <<"Reading\n<read_file>a.txt</read_file>">>,
     <<"<write_file>n.txt\nhi\nyo</write_file>">>,
     <<"<read_", "file>a.txt</read_file>">>,
     <<"<read_file>a.txt</read", "_file>">>,
     <<"<open_file>app.py", "<read_file>", "</open_file>">>,
     <<"<open_file>app.py<">>,
     <<"<read_file> </read_file>">>,
     <<"<open_file>run the server</open_file>">>,
     <<"<write_file>a\nb</read_file>">>,
     <<"<write_file>n.txt\nhi</write_file>">>}

\* the responses of the turns of ChatSpec: each arrives in one fragment
ChatStreams == {<<"~~~go main.go\nA\n~~~">>}

\* the response text of testCodeRecommendationDetection
testResponse ==
    "\nHere's the updated code:\n\n~~~go src/middleware/auth.go\n// Authentication middleware\nfunc AuthMiddleware() gin.HandlerFunc {\n    return func(c *gin.Context) {\n        // Auth logic here\n    }\n}\n~~~\n\nAnd here's another file:\n\n~~~javascript src/components/Button.js\n// Button component\nfunction Button({ children, onClick }) {\n    return <button onClick={onClick}>{children}</button>;\n}\n~~~\n\nAnd here's a problematic case that should NOT be detected:\n\n~~~go\n// handlers/init.go\nfunc InitHandlers() {\n    // This should not be detected as a file path\n}\n~~~\n        "

\* a fenced block: the fence, the language tag, the rest of the fence line, the body
FencedBlock(language, header, body) ==
    Fence \o language \o (IF header = "" THEN "" ELSE " " \o header) \o "\n" \o body \o Fence

\* what follows the language tag on the fence line: a path, a path followed by
\* a tab, a path behind a comment marker, a path in a complete and in a
\* truncated tool-call tag, a sentence, nothing
ExtractHeaders ==
    {"main.go", "a/b\t", "# cfg.yaml", "<open_file>app.py</open_file>", "<open_file>app.py",
     "run the server", ""}

\* the bodies: none, one short line, a path comment first, a function of more
\* than MinDefaultCodeLength characters
ExtractBodies ==
    {"", "A\n", "// util.go\nB\n",
     "func main() {\n    x := compute(1, 2, 3)\n    y := x + 1\n    use(y)\n}\n"}

\* The responses of the turns of ExtractSpec, each in one fragment: one go
\* block for every header and body, and a long block without a header that
\* follows a read_file call.
ExtractStreams ==
    {<<FencedBlock("go", header, body)>> : header \in ExtractHeaders, body \in ExtractBodies}
    \cup {<<"<read_file>lib/util.go</read_file>\n"
             \o FencedBlock("go", "", "\nfunc helper() {\n    x := compute(1, 2, 3)\n    y := x + 1\n    use(y)\n}\n")>>}

\* The fenced blocks of the responses of one and of two blocks: two go blocks
\* headed main.go, a yaml block headed config.yaml, an html block whose body
\* is wrapped in angle brackets and one whose body is not, both headed
\* index.html, and blocks without header: a long go body, and the same body
\* under no language, under a language the table lacks and under one that
\* names a property of Object.prototype.
ExtractBlocks ==
    {[language |-> "go", header |-> "main.go", body |-> "func main(){}\n"],
     [language |-> "go", header |-> "main.go", body |-> "B\n"],
     [language |-> "yaml", header |-> "config.yaml", body |-> "server:\n  port: 8080\n"],
     [language |-> "html", header |-> "index.html", body |-> "<p>x</p>\n"],
     [language |-> "html", header |-> "index.html", body |-> "<h1>t</h1>\ntext\n"]}
    \cup {[language |-> language, header |-> "",
           body |-> "func main() {\n    x := compute(1, 2, 3)\n    y := x + 1\n    z := y * 2\n    use(z)\n}\n"] :
            language \in {"go", "", "zig", "constructor"}}

\* the responses of one block and of two blocks, each in one fragment
BlockStreams ==
    {<<FencedBlock(b.language, b.header, b.body)>> : b \in ExtractBlocks}
    \cup {<<FencedBlock(b.language, b.header, b.body) \o "\n"
              \o FencedBlock(c.language, c.header, c.body)>> : b, c \in ExtractBlocks}

\* a go block without header whose body of eight lines has the path comment
\* // util.go as line n below the fence line
CommentAtLine(n) ==
    LET line(i) == IF i = n THEN "// util.go\n" ELSE "v := 1\n"
    IN  FencedBlock("go", "", line(1) \o line(2) \o line(3) \o line(4) \o line(5)
                                  \o line(6) \o line(7) \o line(8))

\* the responses with a path comment on the fifth, sixth and seventh line
CommentStreams == {<<CommentAtLine(n)>> : n \in 5..7}

RECURSIVE Concat(_)
\* the text of a response: its fragments in order
Concat(chunks) == IF chunks = <<>> THEN "" ELSE Head(chunks) \o Concat(Tail(chunks))

\* the complete texts the extractor is run on
ResponseTexts ==
    {Concat(stream) : stream \in Streams \cup ChatStreams \cup ExtractStreams \cup ToolStreams
                                    \cup BlockStreams \cup CommentStreams} \cup {testResponse}

\* _detectCodeRecommendations on each of these texts
Detected == [response \in ResponseTexts |-> _detectCodeRecommendations(response)]

(***************************************************************************)
(* State of the provider and of the handlers in flight.                    *)
(***************************************************************************)
VARIABLES
    view,                    \* this._view is defined
    chatHistory,             \* this.chatHistory: the roles of its messages
    pendingRecommendations,  \* this.pendingRecommendations: request id -> recommendations
    currentRequestId,        \* this.currentRequestId
    now,                     \* Date.now()
    ticks,                   \* advances of the clock so far
    turns,                   \* the invocations of _handleChatMessage, by order of start
    applyAll,                \* the invocation of _applyCodeChanges in flight
    applyOne,                \* the invocation of _applyCodeChangeFromRequest in flight
    prompted,                \* the codeRecommendation prompts the webview holds
    io,                      \* FileIO operations performed by the last step
    posted,                  \* messages posted to the webview by the last step
    event,                   \* the handler step taken last
    isProcessing,            \* CodeCompletionService.isProcessing
    lastRequestTime,         \* CodeCompletionService.lastRequestTime
    calls                    \* the invocations of getSuggestions: where each one is

vars == <<view, chatHistory, pendingRecommendations, currentRequestId, now, ticks,
          turns, applyAll, applyOne, prompted, io, posted, event,
          isProcessing, lastRequestTime, calls>>

\* the fields of the CodeCompletionService and its invocations in flight
completionVars == <<isProcessing, lastRequestTime, calls>>

\* the fields of the provider, its handlers in flight and what they last did
providerVars == <<view, chatHistory, pendingRecommendations, currentRequestId,
                  turns, applyAll, applyOne, prompted, io, posted>>

\* the CodeCompletionService after its constructor
CompletionInit ==
    /\ isProcessing = FALSE
    /\ lastRequestTime = 0
    /\ calls = [c \in 1..MaxCalls |-> "idle"]

\* the empty Map
EmptyMap == [k \in {} |-> <<>>]

\* map.set(key, value)
MapSet(map, key, value) ==
    [k \in DOMAIN map \cup {key} |-> IF k = key THEN value ELSE map[k]]

\* a delete that empties the map
MapDeleteAll(map, key) == EmptyMap

\* a delete that removes nothing
MapDeleteNothing(map, key) == map

\* map.delete(key)
MapDelete(map, key) == [k \in DOMAIN map \ {key} |-> map[k]]

\* the locals of one invocation of _handleChatMessage; requestId remembers the
\* id generated at its line 160, clearedWhileStreaming whether clearChat
\* was handled during its stream, and dispatched the FileIO operations its
\* tool calls have led to so far
\* a turn whose interpreter starts inside a call
IdleTurnInsideCall ==
    [pc |-> "idle", requestId |-> "", chunks |-> <<>>, fullResponse |-> "",
     inToolCall |-> TRUE, currentToolCall |-> "", toolCallType |-> "",
     clearedWhileStreaming |-> FALSE, dispatched |-> <<>>]

IdleTurn ==
    [pc |-> "idle", requestId |-> "", chunks |-> <<>>, fullResponse |-> "",
     inToolCall |-> FALSE, currentToolCall |-> "", toolCallType |-> "",
     clearedWhileStreaming |-> FALSE, dispatched |-> <<>>]

IdleApplyAll == [pc |-> "idle", recommendations |-> <<>>, requestId |-> "", results |-> <<>>]

IdleApplyOne == [pc |-> "idle", recommendation |-> <<>>, requestId |-> ""]

\* a message posted to the webview
Msg(type, text, data) == [type |-> type, text |-> text, data |-> data]

\* a FileIO operation and its outcome
IoOp(op, path, content, ok) == [op |-> op, path |-> path, content |-> content, ok |-> ok]

\* does the store hold a recommendation for filePath under requestId
Stored(requestId, filePath) ==
    /\ requestId \in DOMAIN pendingRecommendations
    /\ \E i \in 1..Len(pendingRecommendations[requestId]) :
          pendingRecommendations[requestId][i].filePath = filePath

\* the step taken: handler, chat turn, request id, path, and whether it ended
\* its handler with an exception that nothing catches
Ev(type, turn, requestId, filePath, threw) ==
    [type |-> type, turn |-> turn, requestId |-> requestId, filePath |-> filePath,
     threw |-> threw, stored |-> FALSE, storedPath |-> FALSE]

\* a step of the handlers that consult the store: stored and storedPath tell
\* what the store held for the request id and the path when the step began
StoreEv(type, requestId, filePath, threw) ==
    [Ev(type, 0, requestId, filePath, threw) EXCEPT
        !.stored = requestId \in DOMAIN pendingRecommendations,
        !.storedPath = Stored(requestId, filePath)]

Init ==
    /\ view = TRUE
    /\ chatHistory = <<>>
    /\ pendingRecommendations = EmptyMap
    /\ currentRequestId = ""
    /\ now = StartTime
    /\ ticks = 0
    /\ turns = [t \in 1..MaxTurns |-> IdleTurn]
    /\ applyAll = IdleApplyAll
    /\ applyOne = IdleApplyOne
    /\ prompted = {}
    /\ io = <<>>
    /\ posted = <<>>
    /\ event = Ev("init", 0, "", "", FALSE)
    /\ CompletionInit

(***************************************************************************)
(* The TTL sweep: _cleanupOldRecommendations.                              *)
(***************************************************************************)
maxAge == 30 * 60 * 1000

RECURSIVE ParseInt(_)
\* parseInt of a string of decimal digits
ParseInt(digits) ==
    IF digits = "" THEN 0
    ELSE 10 * ParseInt(Sub(digits, 1, Len(digits) - 1))
         + (IndexOf(Digits, CharAt(digits, Len(digits))) - 1)

\* requestId.match(/req_(\d+)_/): the digits of the first match, "" without one
TimestampMatch(requestId) ==
    LET digitsAt(p) == RunLen(requestId, p + 4, CharsOf(Digits))
        group(p) == IF p = 0 THEN "" ELSE Sub(requestId, p + 4, p + 3 + digitsAt(p))
    IN  group(FirstOf({p \in 1..Len(requestId) :
                          /\ Sub(requestId, p, p + 3) = "req_"
                          /\ digitsAt(p) >= 1
                          /\ CharAt(requestId, p + 4 + digitsAt(p)) = "_"}))

\* a sweep that also removes the entries that are exactly maxAge old
CleanupAtMaxAge(map, time) ==
    LET old(timestamp) == timestamp # "" /\ time - ParseInt(timestamp) >= maxAge
        expired(requestId) == old(TimestampMatch(requestId))
    IN  [k \in {r \in DOMAIN map : ~expired(r)} |-> map[k]]

_cleanupOldRecommendations(map, time) ==
    LET old(timestamp) == timestamp # "" /\ time - ParseInt(timestamp) > maxAge
        expired(requestId) == old(TimestampMatch(requestId))
    IN  [k \in {r \in DOMAIN map : ~expired(r)} |-> map[k]]

(***************************************************************************)
(* _handleChatMessage. Its steps are the stretches between two awaits:     *)
(* the start up to the await of the workspace context, the posting of the  *)
(* user message up to the first await of the stream, one step per          *)
(* fragment (with the dispatch of a completed tool call), and the          *)
(* completion after the last fragment.                                     *)
(***************************************************************************)
\* the free slot the next invocation takes
FreeTurn == SetMin({t \in 1..MaxTurns : turns[t].pc = "idle"})

\* the id of line 160: req_<Date.now()>_<random>
NewRequestId(random) == "req_" \o ToString(now) \o "_" \o random

\* the invocation has returned or thrown: its locals are gone
EndedTurn(t) ==
    [IdleTurn EXCEPT !.pc = "done", !.requestId = turns[t].requestId,
                     !.clearedWhileStreaming = turns[t].clearedWhileStreaming]

\* A postMessage through this._view inside the try block: without a view the
\* TypeError is caught at line 293, and the catch block, which posts through
\* this._view as well, throws it again.
TurnThrows(t) ==
    /\ turns' = [turns EXCEPT ![t] = EndedTurn(t)]
    /\ posted' = <<>>

\* lines 156-170
StartTurn(entry, random) ==
    /\ view
    /\ \E t \in 1..MaxTurns : turns[t].pc = "idle"
    /\ currentRequestId' = NewRequestId(random)
    /\ chatHistory' = Append(chatHistory, "user")
    /\ turns' = [turns EXCEPT ![FreeTurn] =
                    [IdleTurn EXCEPT !.pc = "context", !.requestId = NewRequestId(random)]]
    /\ io' = <<>>
    /\ posted' = <<>>
    /\ event' = Ev(entry, FreeTurn, NewRequestId(random), "", FALSE)
    /\ UNCHANGED <<view, pendingRecommendations, now, ticks, applyAll, applyOne, prompted>>
    /\ UNCHANGED completionVars

\* the webview message sendMessage
SendMessage == \E random \in RandomSuffixes : StartTurn("sendMessage", random)

ExplainCode == \E random \in RandomSuffixes : StartTurn("explainCode", random)

ImproveCode == \E random \in RandomSuffixes : StartTurn("improveCode", random)

FixCode == \E random \in RandomSuffixes : StartTurn("fixCode", random)

\* lines 176-211: the context has arrived; the user message and the streaming
\* placeholder are posted and the stream is requested
ContextReady(t, stream) ==
    /\ turns[t].pc = "context"
    /\ IF view
       THEN /\ turns' = [turns EXCEPT ![t].pc = "stream", ![t].chunks = stream]
            /\ posted' = <<Msg("userMessage", "", <<>>), Msg("assistantMessage", "streaming", <<>>)>>
       ELSE TurnThrows(t)
    /\ io' = <<>>
    /\ event' = Ev("contextReady", t, turns[t].requestId, "", ~view)
    /\ UNCHANGED <<view, chatHistory, pendingRecommendations, currentRequestId, now, ticks,
                   applyAll, applyOne, prompted>>
    /\ UNCHANGED completionVars

\* the kind of the first opening tag test of lines 217-219 that the chunk passes
OpenedToolType(chunk) ==
    IF Includes(chunk, "<read_file>") THEN "read_file"
    ELSE IF Includes(chunk, "<write_file>") THEN "write_file"
    ELSE IF Includes(chunk, "<open_file>") THEN "open_file"
    ELSE ""

\* a test for the end of a call that no text passes
NoClosingTag(text) == FALSE

HasClosingTag(text) == \E k \in ToolTypes : Includes(text, ClosingTag(k))

\* _processToolCall with its file handlers: the FileIO operations performed,
\* ok being the outcome of the operation
ToolCallIo(toolCall, toolType, ok) ==
    LET dispatch(inner) ==
            IF toolType = "read_file"
            THEN IF _isValidFilePath(inner) THEN <<IoOp("read", inner, "", ok)>> ELSE <<>>
            ELSE IF toolType = "write_file"
            THEN IF inner # ""
                 THEN <<IoOp("write", WriteRequestPath(inner), WriteRequestContent(inner), ok)>>
                 ELSE <<>>
            ELSE IF toolType = "open_file"
            THEN IF _isValidFilePath(inner) THEN <<IoOp("open", inner, "", ok)>> ELSE <<>>
            ELSE <<>>
    IN  IF ~_isValidToolCall(toolCall, toolType) THEN <<>>
        ELSE dispatch(ToolCallInner(toolCall, toolType))

\* the message a file handler posts for its operation, when there is a view
ToolCallPosts(ops) ==
    IF ops = <<>> \/ ~view THEN <<>>
    ELSE IF ops[1].ok THEN <<Msg("assistantMessage", ops[1].op, ops[1].path)>>
    ELSE <<Msg("error", ops[1].op, ops[1].path)>>

\* lines 211-245: one fragment of the stream
Chunk(t, ok) ==
    LET step(chunk, toolCallType, currentToolCall, ops) ==
            /\ IF turns[t].inToolCall \/ OpenedToolType(chunk) # ""
               THEN IF HasClosingTag(currentToolCall)
                    THEN /\ io' = ops
                         /\ posted' = ToolCallPosts(ops)
                         /\ turns' = [turns EXCEPT ![t].chunks = Tail(@),
                                                   ![t].fullResponse = @ \o chunk,
                                                   ![t].inToolCall = FALSE,
                                                   ![t].currentToolCall = "",
                                                   ![t].toolCallType = "",
                                                   ![t].dispatched =
                                                       @ \o [i \in 1..Len(ops) |->
                                                               [op |-> ops[i].op,
                                                                path |-> ops[i].path,
                                                                content |-> ops[i].content]]]
                    ELSE /\ io' = <<>>
                         /\ posted' = <<>>
                         /\ turns' = [turns EXCEPT ![t].chunks = Tail(@),
                                                   ![t].fullResponse = @ \o chunk,
                                                   ![t].inToolCall = TRUE,
                                                   ![t].currentToolCall = currentToolCall,
                                                   ![t].toolCallType = toolCallType]
               ELSE /\ io' = <<>>
                    /\ IF view
                       THEN /\ posted' = <<Msg("updateMessage", chunk, <<>>)>>
                            /\ turns' = [turns EXCEPT ![t].chunks = Tail(@),
                                                      ![t].fullResponse = @ \o chunk]
                       ELSE TurnThrows(t)
            /\ event' = Ev("chunk", t, turns[t].requestId, "",
                           ~(turns[t].inToolCall \/ OpenedToolType(chunk) # "") /\ ~view)
        call(chunk, toolCallType, currentToolCall) ==
            step(chunk, toolCallType, currentToolCall,
                 ToolCallIo(currentToolCall, toolCallType, ok))
        fragment(chunk, opened) ==
            call(chunk, IF opened # "" THEN opened ELSE turns[t].toolCallType,
                 turns[t].currentToolCall \o chunk)
    IN  /\ turns[t].pc = "stream"
        /\ turns[t].chunks # <<>>
        /\ fragment(Head(turns[t].chunks), OpenedToolType(Head(turns[t].chunks)))
        /\ UNCHANGED <<view, chatHistory, pendingRecommendations, currentRequestId, now,
                       ticks, applyAll, applyOne, prompted>>
        /\ UNCHANGED completionVars

\* the stream throws: the catch block of line 293 posts the error
StreamFails(t) ==
    /\ turns[t].pc = "stream"
    /\ IF view
       THEN /\ turns' = [turns EXCEPT ![t] = EndedTurn(t)]
            /\ posted' = <<Msg("error", "", <<>>)>>
       ELSE TurnThrows(t)
    /\ io' = <<>>
    /\ event' = Ev("streamError", t, turns[t].requestId, "", ~view)
    /\ UNCHANGED <<view, chatHistory, pendingRecommendations, currentRequestId, now, ticks,
                   applyAll, applyOne, prompted>>
    /\ UNCHANGED completionVars

\* a completion that stores whatever the extractor returned
AnyRecommendations(recommendations) == TRUE

\* line 261: recommendations.length > 0
HasRecommendations(recommendations) == Len(recommendations) > 0

\* a completion that hands the completed response to _processToolCalls, which
\* performs the write of a write_file call of the response
ProcessToolCalls(response) ==
    IF _isValidToolCall(response, "write_file")
    THEN <<IoOp("write", WriteRequestPath(ToolCallInner(response, "write_file")),
                WriteRequestContent(ToolCallInner(response, "write_file")), TRUE)>>
    ELSE <<>>

\* The FileIO operations of lines 247-291 on the completed response: none, as
\* _processToolCalls (line 720) is called from nowhere.
CompletedResponseIo(response) == <<>>

\* lines 247-291: the stream has ended; the recommendations of the response are
\* stored under this.currentRequestId and the final message is posted
Complete(t) ==
    /\ turns[t].pc = "stream"
    /\ turns[t].chunks = <<>>
    /\ \E recommendations \in {Detected[turns[t].fullResponse]} :
          /\ pendingRecommendations' =
                IF HasRecommendations(recommendations)
                THEN MapSet(pendingRecommendations, currentRequestId, recommendations)
                ELSE pendingRecommendations
          /\ IF view
             THEN /\ turns' = [turns EXCEPT ![t] = EndedTurn(t)]
                  /\ posted' = <<Msg("replaceStreamingMessage", currentRequestId,
                                     [i \in 1..Len(recommendations) |->
                                         recommendations[i].filePath])>>
             ELSE TurnThrows(t)
    /\ chatHistory' = Append(chatHistory, "assistant")
    /\ io' = CompletedResponseIo(turns[t].fullResponse)
    /\ event' = [dispatched |-> turns[t].dispatched]
                   @@ Ev("complete", t, currentRequestId, "", ~view)
    /\ UNCHANGED <<view, currentRequestId, now, ticks, applyAll, applyOne, prompted>>
    /\ UNCHANGED completionVars

(***************************************************************************)
(* The other webview messages of _handleWebviewMessage. A message reaches  *)
(* the provider only while the webview exists, hence the guard view.       *)
(***************************************************************************)
\* the request ids the webview has been shown
KnownRequestIds ==
    {turns[t].requestId : t \in {u \in 1..MaxTurns : turns[u].pc # "idle"}} \cup {TestRequestId}

\* the paths the webview has been shown for a request id, and one it has not
KnownPaths(requestId) ==
    {UnknownPath} \cup
    IF requestId \in DOMAIN pendingRecommendations
    THEN {pendingRecommendations[requestId][i].filePath :
             i \in 1..Len(pendingRecommendations[requestId])}
    ELSE {}

\* a clearChat without line 358: the store is swept but not cleared
ClearChatKeepingStore ==
    /\ view
    /\ chatHistory' = <<>>
    /\ pendingRecommendations' = _cleanupOldRecommendations(pendingRecommendations, now)
    /\ posted' = IF view THEN <<Msg("clearChat", "", <<>>)>> ELSE <<>>
    /\ turns' = [t \in 1..MaxTurns |->
                    IF turns[t].pc = "stream"
                    THEN [turns[t] EXCEPT !.clearedWhileStreaming = TRUE]
                    ELSE turns[t]]
    /\ io' = <<>>
    /\ event' = [Ev("clearChat", 0, "", "", FALSE) EXCEPT
                    !.stored = DOMAIN pendingRecommendations # {}]
    /\ UNCHANGED <<view, currentRequestId, now, ticks, applyAll, applyOne, prompted>>
    /\ UNCHANGED completionVars

\* _clearChat; the event tells whether the store held an entry when it began
ClearChat ==
    /\ view
    /\ chatHistory' = <<>>
    /\ pendingRecommendations' = _cleanupOldRecommendations(EmptyMap, now)
    /\ posted' = IF view THEN <<Msg("clearChat", "", <<>>)>> ELSE <<>>
    /\ turns' = [t \in 1..MaxTurns |->
                    IF turns[t].pc = "stream"
                    THEN [turns[t] EXCEPT !.clearedWhileStreaming = TRUE]
                    ELSE turns[t]]
    /\ io' = <<>>
    /\ event' = [Ev("clearChat", 0, "", "", FALSE) EXCEPT
                    !.stored = DOMAIN pendingRecommendations # {}]
    /\ UNCHANGED <<view, currentRequestId, now, ticks, applyAll, applyOne, prompted>>
    /\ UNCHANGED completionVars

\* a rejection that acknowledges and leaves the store as it is
RejectCodeChangesKeepingEntry(requestId) ==
    /\ view
    /\ posted' = <<Msg("assistantMessage", "rejected", <<>>)>>
    /\ io' = <<>>
    /\ event' = StoreEv("rejectCodeChanges", requestId, "", FALSE)
    /\ UNCHANGED <<view, chatHistory, pendingRecommendations, currentRequestId, now, ticks,
                   turns, applyAll, applyOne, prompted>>
    /\ UNCHANGED completionVars

\* case 'rejectCodeChanges'
RejectCodeChanges(requestId) ==
    /\ view
    /\ posted' = IF view THEN <<Msg("assistantMessage", "rejected", <<>>)>> ELSE <<>>
    /\ pendingRecommendations' =
          IF requestId # "" THEN MapDelete(pendingRecommendations, requestId)
          ELSE pendingRecommendations
    /\ io' = <<>>
    /\ event' = StoreEv("rejectCodeChanges", requestId, "", FALSE)
    /\ UNCHANGED <<view, chatHistory, currentRequestId, now, ticks, turns, applyAll, applyOne,
                   prompted>>
    /\ UNCHANGED completionVars

(***************************************************************************)
(* _applyCodeChanges (apply-all): the old message format, which carries    *)
(* the recommendations themselves. One step per awaited write; the step    *)
(* of the last write also posts the results and evicts the request id.     *)
(***************************************************************************)
\* the (recommendations, requestId) pairs an applyCodeChanges message can carry:
\* the prompts the webview holds and the entries of the store
ApplyAllInputs ==
    prompted \cup
    {[requestId |-> k, recommendations |-> pendingRecommendations[k]] :
        k \in DOMAIN pendingRecommendations}

\* lines 1291-1303: up to the await of the first write
ApplyCodeChanges(recommendations, requestId) ==
    /\ view
    /\ applyAll.pc = "idle"
    /\ Len(recommendations) > 0
    /\ applyAll' = [pc |-> "writing", recommendations |-> recommendations,
                    requestId |-> requestId, results |-> <<>>]
    /\ io' = <<>>
    /\ posted' = <<>>
    /\ event' = Ev("applyCodeChanges", 0, requestId, "", FALSE)
    /\ UNCHANGED <<view, chatHistory, pendingRecommendations, currentRequestId, now, ticks,
                   turns, applyOne, prompted>>
    /\ UNCHANGED completionVars

\* a loop that a failed write leaves
BatchDoneOrWriteFailed(recommendations, results) ==
    Len(results) = Len(recommendations) \/ ~results[Len(results)].ok

\* the for loop of line 1295 has visited every recommendation: a failed write
\* is caught inside the loop body and does not leave it
BatchDone(recommendations, results) == Len(results) = Len(recommendations)

\* lines 1303-1323: the write of the next recommendation ends with outcome ok;
\* after the last one the results are posted through this._view, which throws
\* when the view is gone, and the request id is evicted
ApplyAllWrite(ok) ==
    LET recommendation == applyAll.recommendations[Len(applyAll.results) + 1]
        results == Append(applyAll.results, [filePath |-> recommendation.filePath, ok |-> ok])
        last == BatchDone(applyAll.recommendations, results)
    IN  /\ applyAll.pc = "writing"
        /\ io' = <<IoOp("write", recommendation.filePath, recommendation.code, ok)>>
        /\ IF ~last
           THEN /\ applyAll' = [applyAll EXCEPT !.results = results]
                /\ posted' = <<>>
                /\ event' = StoreEv("applyAllWrite", applyAll.requestId, recommendation.filePath, FALSE)
                /\ UNCHANGED pendingRecommendations
           ELSE /\ applyAll' = IdleApplyAll
                /\ event' = StoreEv("applyAllEnd", applyAll.requestId, recommendation.filePath, ~view)
                /\ IF view
                   THEN /\ posted' = <<Msg("assistantMessage", "applied", results)>>
                        /\ pendingRecommendations' =
                              IF applyAll.requestId # ""
                              THEN MapDelete(pendingRecommendations, applyAll.requestId)
                              ELSE pendingRecommendations
                   ELSE /\ posted' = <<>>
                        /\ UNCHANGED pendingRecommendations
        /\ UNCHANGED <<view, chatHistory, currentRequestId, now, ticks, turns, applyOne, prompted>>
        /\ UNCHANGED completionVars

(***************************************************************************)
(* _applyCodeChangeFromRequest (apply-one): the new message format.        *)
(***************************************************************************)
\* a lookup that falls back to the first recommendation when no path matches
FindRecommendationOrFirst(storedRecommendations, filePath) ==
    LET hits == {i \in 1..Len(storedRecommendations) :
                    storedRecommendations[i].filePath = filePath}
    IN  IF hits # {} THEN SetMin(hits)
        ELSE IF Len(storedRecommendations) > 0 THEN 1 ELSE 0

\* storedRecommendations.find(rec => rec.filePath === filePath): its index, 0 for undefined
FindRecommendation(storedRecommendations, filePath) ==
    LET hits == {i \in 1..Len(storedRecommendations) :
                    storedRecommendations[i].filePath = filePath}
    IN  IF hits = {} THEN 0 ELSE SetMin(hits)

\* lines 1327-1357: the lookups, up to the await of the write
ApplyCodeChangeFromRequest(requestId, filePath) ==
    LET known == requestId \in DOMAIN pendingRecommendations
        storedRecommendations == IF known THEN pendingRecommendations[requestId] ELSE <<>>
        found == FindRecommendation(storedRecommendations, filePath)
    IN  /\ view
        /\ requestId # "" /\ filePath # ""
        /\ IF ~known \/ Len(storedRecommendations) = 0
           THEN /\ posted' = <<Msg("assistantMessage", "noRecommendationsForRequest", requestId)>>
                /\ UNCHANGED applyOne
           ELSE IF found = 0
           THEN /\ posted' = <<Msg("assistantMessage", "noRecommendationForFile", filePath)>>
                /\ UNCHANGED applyOne
           ELSE /\ applyOne.pc = "idle"
                /\ posted' = <<>>
                /\ applyOne' = [pc |-> "writing", recommendation |-> storedRecommendations[found],
                                requestId |-> requestId]
        /\ io' = <<>>
        /\ event' = StoreEv("applyCodeChangeFromRequest", requestId, filePath, FALSE)
        /\ UNCHANGED <<view, chatHistory, pendingRecommendations, currentRequestId, now, ticks,
                       turns, applyAll, prompted>>
        /\ UNCHANGED completionVars

\* lines 1357-1373: the write ends; on failure the catch block posts through
\* this._view, on success the editor refresh is awaited
ApplyOneWrite(ok) ==
    /\ applyOne.pc = "writing"
    /\ io' = <<IoOp("write", applyOne.recommendation.filePath, applyOne.recommendation.code, ok)>>
    /\ IF ok
       THEN /\ applyOne' = [applyOne EXCEPT !.pc = "refreshing"]
            /\ posted' = <<>>
            /\ event' = Ev("applyOneWrite", 0, applyOne.requestId,
                           applyOne.recommendation.filePath, FALSE)
       ELSE /\ applyOne' = IdleApplyOne
            /\ posted' = IF view
                         THEN <<Msg("assistantMessage", "failed", applyOne.recommendation.filePath)>>
                         ELSE <<>>
            /\ event' = Ev("applyOneFailed", 0, applyOne.requestId,
                           applyOne.recommendation.filePath, ~view)
    /\ UNCHANGED <<view, chatHistory, pendingRecommendations, currentRequestId, now, ticks,
                   turns, applyAll, prompted>>
    /\ UNCHANGED completionVars

\* lines 1361-1366: _refreshEditorTab has returned (it swallows its errors);
\* the success message is posted through this._view
ApplyOneRefreshed ==
    /\ applyOne.pc = "refreshing"
    /\ io' = <<IoOp("refresh", applyOne.recommendation.filePath, "", TRUE)>>
    /\ applyOne' = IdleApplyOne
    /\ posted' = IF view
                 THEN <<Msg("assistantMessage", "applied", applyOne.recommendation.filePath)>>
                 ELSE <<>>
    /\ event' = Ev("applyOneEnd", 0, applyOne.requestId, applyOne.recommendation.filePath, ~view)
    /\ UNCHANGED <<view, chatHistory, pendingRecommendations, currentRequestId, now, ticks,
                   turns, applyAll, prompted>>
    /\ UNCHANGED completionVars

(***************************************************************************)
(* The environment: the webview's life, the clock, the test command.       *)
(***************************************************************************)
\* onDidDispose: the webview is gone, and with it the prompts it held
Dispose ==
    /\ view
    /\ view' = FALSE
    /\ prompted' = {}
    /\ io' = <<>>
    /\ posted' = <<>>
    /\ event' = Ev("environment", 0, "", "", FALSE)
    /\ UNCHANGED <<chatHistory, pendingRecommendations, currentRequestId, now, ticks, turns,
                   applyAll, applyOne>>
    /\ UNCHANGED completionVars

\* resolveWebviewView: a new webview is attached
ResolveWebviewView ==
    /\ ~view
    /\ view' = TRUE
    /\ io' = <<>>
    /\ posted' = <<>>
    /\ event' = Ev("environment", 0, "", "", FALSE)
    /\ UNCHANGED <<chatHistory, pendingRecommendations, currentRequestId, now, ticks, turns,
                   applyAll, applyOne, prompted>>
    /\ UNCHANGED completionVars

\* time passes
Tick ==
    /\ ticks < MaxTicks
    /\ now' = now + TickMs
    /\ ticks' = ticks + 1
    /\ io' = <<>>
    /\ posted' = <<>>
    /\ event' = Ev("environment", 0, "", "", FALSE)
    /\ UNCHANGED <<view, chatHistory, pendingRecommendations, currentRequestId, turns,
                   applyAll, applyOne, prompted>>
    /\ UNCHANGED completionVars

\* testCodeRecommendationDetection with _promptForCodeApplication: the
\* recommendations of testResponse are sent to the webview under TestRequestId
TestCodeRecommendationDetection ==
    /\ view
    /\ \E recommendations \in {Detected[testResponse]} :
          /\ Len(recommendations) > 0
          /\ posted' = <<Msg("codeRecommendation", TestRequestId, recommendations)>>
          /\ prompted' = prompted \cup
                            {[requestId |-> TestRequestId, recommendations |-> recommendations]}
    /\ io' = <<>>
    /\ event' = Ev("testCodeRecommendationDetection", 0, TestRequestId, "", FALSE)
    /\ UNCHANGED <<view, chatHistory, pendingRecommendations, currentRequestId, now, ticks,
                   turns, applyAll, applyOne>>
    /\ UNCHANGED completionVars

\* no invocation of _handleChatMessage is in flight
NoStreamingSession == \A t \in 1..MaxTurns : turns[t].pc \in {"idle", "done"}

\* the callers keep to one streaming session at a time, MaxSessions in a run
MayStartSession ==
    /\ NoStreamingSession
    /\ Cardinality({t \in 1..MaxTurns : turns[t].pc # "idle"}) < MaxSessions

\* The store and its handlers: chat turns of callers that keep to one streaming
\* session at a time, the test command, apply-all, apply-one and reject, while
\* the webview comes and goes.
Next ==
    \/ MayStartSession /\ SendMessage
    \/ MayStartSession /\ ExplainCode
    \/ MayStartSession /\ ImproveCode
    \/ MayStartSession /\ FixCode
    \/ \E t \in 1..MaxTurns : \E stream \in Streams : ContextReady(t, stream)
    \/ \E t \in 1..MaxTurns : \E ok \in BOOLEAN : Chunk(t, ok)
    \/ \E t \in 1..MaxTurns : StreamFails(t)
    \/ \E t \in 1..MaxTurns : Complete(t)
    \/ \E requestId \in KnownRequestIds : RejectCodeChanges(requestId)
    \/ \E input \in ApplyAllInputs : ApplyCodeChanges(input.recommendations, input.requestId)
    \/ \E ok \in BOOLEAN : ApplyAllWrite(ok)
    \/ \E requestId \in KnownRequestIds : \E filePath \in KnownPaths(requestId) :
          ApplyCodeChangeFromRequest(requestId, filePath)
    \/ \E ok \in BOOLEAN : ApplyOneWrite(ok)
    \/ ApplyOneRefreshed
    \/ Dispose
    \/ ResolveWebviewView
    \/ TestCodeRecommendationDetection

Spec == Init /\ [][Next]_vars

\* The chat: turns that start while earlier ones are still in flight, clearChat,
\* the clock advancing, while the webview comes and goes.
ChatNext ==
    \/ SendMessage
    \/ ExplainCode
    \/ ImproveCode
    \/ FixCode
    \/ \E t \in 1..MaxTurns : \E stream \in ChatStreams : ContextReady(t, stream)
    \/ \E t \in 1..MaxTurns : \E ok \in BOOLEAN : Chunk(t, ok)
    \/ \E t \in 1..MaxTurns : StreamFails(t)
    \/ \E t \in 1..MaxTurns : Complete(t)
    \/ ClearChat
    \/ Dispose
    \/ ResolveWebviewView
    \/ Tick

ChatSpec == Init /\ [][ChatNext]_vars


\* The tool-call interpreter at work: two responses, drawn from ToolStreams,
\* are streamed side by side.
ToolNext ==
    \/ Cardinality({t \in 1..MaxTurns : turns[t].pc # "idle"}) < 2 /\ SendMessage
    \/ \E t \in 1..MaxTurns : \E stream \in ToolStreams : ContextReady(t, stream)
    \/ \E t \in 1..MaxTurns : \E ok \in BOOLEAN : Chunk(t, ok)
    \/ \E t \in 1..MaxTurns : Complete(t)

ToolSpec == Init /\ [][ToolNext]_vars

\* The chat of a caller that sends a message only when no response is in
\* flight: turns one after the other, transport failures and clearChat.
TurnsNext ==
    \/ NoStreamingSession /\ SendMessage
    \/ \E t \in 1..MaxTurns : \E stream \in Streams \cup ChatStreams : ContextReady(t, stream)
    \/ \E t \in 1..MaxTurns : \E ok \in BOOLEAN : Chunk(t, ok)
    \/ \E t \in 1..MaxTurns : StreamFails(t)
    \/ \E t \in 1..MaxTurns : Complete(t)
    \/ ClearChat

TurnsSpec == Init /\ [][TurnsNext]_vars

\* more than maxAge passes
MaxAgePasses ==
    /\ ticks < MaxTicks
    /\ now' = now + maxAge + TickMs
    /\ ticks' = ticks + 1
    /\ io' = <<>>
    /\ posted' = <<>>
    /\ event' = Ev("environment", 0, "", "", FALSE)
    /\ UNCHANGED <<view, chatHistory, pendingRecommendations, currentRequestId, turns,
                   applyAll, applyOne, prompted>>
    /\ UNCHANGED completionVars

\* The chat over a long time.
LiveNext ==
    \/ ChatNext
    \/ MaxAgePasses

\* What happens without the user: the workspace context and the fragments
\* of a response arrive, a response that has ended is completed, time passes.
\* The provider sets no timer (its only setTimeout, line 79, checks the
\* connection), so nothing else runs on its own.
LiveSpec ==
    /\ Init
    /\ [][LiveNext]_vars
    /\ WF_vars(\E t \in 1..MaxTurns : \E stream \in ChatStreams : ContextReady(t, stream))
    /\ WF_vars(\E t \in 1..MaxTurns : \E ok \in BOOLEAN : Chunk(t, ok))
    /\ WF_vars(\E t \in 1..MaxTurns : Complete(t))
    /\ WF_vars(Tick)
    /\ WF_vars(MaxAgePasses)

\* the ages, when the sweeps begin, of the entries they meet: a minute less
\* than maxAge, maxAge, a millisecond more, a minute more
SweepAges == {maxAge - TickMs, maxAge, maxAge + 1, maxAge + TickMs}

\* the id of line 160 for the request that is age old when the sweeps begin
SweepId(age) ==
    "req_" \o ToString(StartTime + maxAge + TickMs - age) \o "_" \o CHOOSE r \in RandomSuffixes : TRUE

\* _cleanupOldRecommendations is about to run: the store holds any of the
\* entries of these ages and of the test prompt's id
SweepInit ==
    /\ view = TRUE
    /\ chatHistory = <<>>
    /\ pendingRecommendations \in
          {[k \in ids |-> Detected[Concat(CHOOSE stream \in ChatStreams : TRUE)]] :
              ids \in SUBSET ({SweepId(age) : age \in SweepAges} \cup {TestRequestId})}
    /\ currentRequestId = ""
    /\ now = StartTime + maxAge + TickMs
    /\ ticks = 0
    /\ turns = [t \in 1..MaxTurns |-> IdleTurn]
    /\ applyAll = IdleApplyAll
    /\ applyOne = IdleApplyOne
    /\ prompted = {}
    /\ io = <<>>
    /\ posted = <<>>
    /\ event = Ev("init", 0, "", "", FALSE)
    /\ CompletionInit

\* one run of _cleanupOldRecommendations; the event tells which request ids
\* the store held when it began
CleanupOldRecommendations ==
    /\ pendingRecommendations' = _cleanupOldRecommendations(pendingRecommendations, now)
    /\ io' = <<>>
    /\ posted' = <<>>
    /\ event' = [type |-> "cleanupOldRecommendations", turn |-> 0, requestId |-> "",
                 filePath |-> "", threw |-> FALSE,
                 stored |-> DOMAIN pendingRecommendations # {}, storedPath |-> FALSE,
                 before |-> DOMAIN pendingRecommendations]
    /\ UNCHANGED <<view, chatHistory, currentRequestId, now, ticks, turns, applyAll, applyOne,
                   prompted>>
    /\ UNCHANGED completionVars

\* The sweep on its own: it runs on any of these stores, at the start or a
\* tick later.
SweepNext ==
    \/ CleanupOldRecommendations
    \/ Tick

SweepSpec == SweepInit /\ [][SweepNext]_vars

\* the recommendation lists line 265 has stored for earlier chat turns
StoredLists == {Detected[Concat(stream)] : stream \in Streams \cup ChatStreams} \ {<<>>}

\* Several chat turns have ended and no other is in flight: the store holds
\* the lists of any of them, each under the id its turn was given.
StoreInit ==
    /\ view = TRUE
    /\ chatHistory = <<>>
    /\ pendingRecommendations \in
          UNION {[ids -> StoredLists] : ids \in SUBSET {SweepId(age) : age \in SweepAges}}
    /\ currentRequestId = ""
    /\ now = StartTime + maxAge + TickMs
    /\ ticks = 0
    /\ turns = [t \in 1..MaxTurns |-> IdleTurn]
    /\ applyAll = IdleApplyAll
    /\ applyOne = IdleApplyOne
    /\ prompted = {}
    /\ io = <<>>
    /\ posted = <<>>
    /\ event = Ev("init", 0, "", "", FALSE)
    /\ CompletionInit

\* The webview's buttons on a store of several requests: apply-all, apply-one
\* and reject, for the request ids the webview has been shown.
StoreNext ==
    \/ \E requestId \in DOMAIN pendingRecommendations : RejectCodeChanges(requestId)
    \/ \E input \in ApplyAllInputs : ApplyCodeChanges(input.recommendations, input.requestId)
    \/ \E ok \in BOOLEAN : ApplyAllWrite(ok)
    \/ \E requestId \in DOMAIN pendingRecommendations : \E filePath \in KnownPaths(requestId) :
          ApplyCodeChangeFromRequest(requestId, filePath)
    \/ \E ok \in BOOLEAN : ApplyOneWrite(ok)
    \/ ApplyOneRefreshed

StoreSpec == StoreInit /\ [][StoreNext]_vars

\* The extractor at work: one chat turn at a time, its response drawn from
\* ExtractStreams, BlockStreams and CommentStreams, extracted and stored when
\* the stream has ended.
ExtractNext ==
    \/ MayStartSession /\ SendMessage
    \/ \E t \in 1..MaxTurns : \E stream \in ExtractStreams \cup BlockStreams \cup CommentStreams :
          ContextReady(t, stream)
    \/ \E t \in 1..MaxTurns : \E ok \in BOOLEAN : Chunk(t, ok)
    \/ \E t \in 1..MaxTurns : Complete(t)
    \/ Dispose
    \/ ResolveWebviewView

ExtractSpec == Init /\ [][ExtractNext]_vars

\* The candidate paths the Classifier is run on: every prefix before every
\* stem before every suffix.
ClassifierPaths ==
    {prefix \o stem \o suffix :
        prefix \in {"", " ", "//", "#", "go ", "go/", "Python.", "src/", "see ",
                    "http://", "https://", "localhost/", "npm."},
        stem \in {"main", "a  b", "x<y", "x>y", "curl"},
        suffix \in {".go", "", " "}}

\* _isValidFilePath applied to one candidate path
ClassifyPath ==
    /\ \E path \in ClassifierPaths :
          event' = [type |-> "_isValidFilePath", filePath |-> path,
                    isValid |-> _isValidFilePath(path)]
    /\ UNCHANGED <<view, chatHistory, pendingRecommendations, currentRequestId, now, ticks,
                   turns, applyAll, applyOne, prompted, io, posted>>
    /\ UNCHANGED completionVars

\* the Classifier on its own
ClassifySpec == Init /\ [][ClassifyPath]_vars

\* The buffered texts _isValidToolCall is run on: for a kind of tag, what
\* precedes the call (nothing, plain text, a closing tag, an empty call),
\* the opening tag or none, the content, and the closing tag, the start of a
\* tag or nothing.
ToolCallTexts ==
    {before \o opening \o content \o closing :
        before \in UNION {{"", "just some text", ClosingTag(k), OpeningTag(k) \o ClosingTag(k)} :
                              k \in {"read_file", "open_file"}},
        opening \in {OpeningTag(k) : k \in {"read_file", "open_file"}} \cup {""},
        content \in {"valid_file.py", " ", ""},
        closing \in {ClosingTag(k) : k \in {"read_file", "open_file"}} \cup {"<", ""}}

\* _isValidToolCall applied to one buffered text and one kind
ValidateToolCall ==
    /\ \E toolCall \in ToolCallTexts, toolType \in {"read_file", "open_file"} :
          event' = [type |-> "_isValidToolCall", toolCall |-> toolCall,
                    toolType |-> toolType,
                    isValid |-> _isValidToolCall(toolCall, toolType)]
    /\ UNCHANGED <<view, chatHistory, pendingRecommendations, currentRequestId, now, ticks,
                   turns, applyAll, applyOne, prompted, io, posted>>
    /\ UNCHANGED completionVars

\* the validator of tool calls on its own
ValidateSpec == Init /\ [][ValidateToolCall]_vars

(***************************************************************************)
(* CodeCompletionService.getSuggestions: one step up to its return or its  *)
(* first await, one step per await after that.                             *)
(***************************************************************************)
\* a guard that looks at the time of the last request only
DebounceNotOver == now - lastRequestTime < debounceDelay

\* line 78: a request is being processed, or the last one began less than
\* debounceDelay ago
Busy == isProcessing \/ now - lastRequestTime < debounceDelay

\* a step of getSuggestions: path names the branch taken, returned whether
\* the invocation has returned and items how many items it returned
CompletionEv(type, call, path, returned, items) ==
    [type |-> type, call |-> call, path |-> path, returned |-> returned, items |-> items]

\* lines 62-95: the invocation returns an empty list when completion is
\* disabled or Busy holds; otherwise it sets the flag and the time and
\* awaits getWorkspaceContext
GetSuggestions(c, enabled) ==
    /\ calls[c] = "idle"
    /\ IF ~enabled
       THEN /\ event' = CompletionEv("getSuggestions", c, "disabled", TRUE, 0)
            /\ UNCHANGED completionVars
       ELSE IF Busy
       THEN /\ event' = CompletionEv("getSuggestions", c, "debounced", TRUE, 0)
            /\ UNCHANGED completionVars
       ELSE /\ isProcessing' = TRUE
            /\ lastRequestTime' = now
            /\ calls' = [calls EXCEPT ![c] = "context"]
            /\ event' = CompletionEv("getSuggestions", c, "accepted", FALSE, 0)
    /\ UNCHANGED <<providerVars, now, ticks>>

\* lines 95-113: the workspace context has arrived; the prompt is built and
\* sent to the model, or building it throws and the catch block of line 129
\* returns an empty list
WorkspaceContextReady(c, ok) ==
    /\ calls[c] = "context"
    /\ IF ok
       THEN /\ calls' = [calls EXCEPT ![c] = "model"]
            /\ event' = CompletionEv("workspaceContext", c, "prompted", FALSE, 0)
            /\ UNCHANGED isProcessing
       ELSE /\ calls' = [calls EXCEPT ![c] = "idle"]
            /\ isProcessing' = FALSE
            /\ event' = CompletionEv("workspaceContext", c, "error", TRUE, 0)
    /\ UNCHANGED <<providerVars, now, ticks, lastRequestTime>>

\* lines 113-134: getSuggestionFromOllama has returned, with a suggestion
\* (one item is returned, or createCompletionItem throws and the catch block
\* returns none) or with the empty string
SuggestionArrives(c, outcome) ==
    /\ calls[c] = "model"
    /\ calls' = [calls EXCEPT ![c] = "idle"]
    /\ isProcessing' = FALSE
    /\ event' = CompletionEv("suggestion", c, outcome, TRUE, IF outcome = "success" THEN 1 ELSE 0)
    /\ UNCHANGED <<providerVars, now, ticks, lastRequestTime>>

\* the editor lets some time pass: a millisecond less than debounceDelay, or
\* debounceDelay
Wait(ms) ==
    /\ ticks < MaxWaits
    /\ now' = now + ms
    /\ ticks' = ticks + 1
    /\ event' = Ev("environment", 0, "", "", FALSE)
    /\ UNCHANGED <<providerVars, completionVars>>

\* The completion provider: the editor asks for suggestions as the user
\* types, whether or not an earlier request has returned.
CompletionNext ==
    \/ \E c \in 1..MaxCalls : \E enabled \in BOOLEAN : GetSuggestions(c, enabled)
    \/ \E c \in 1..MaxCalls : \E ok \in BOOLEAN : WorkspaceContextReady(c, ok)
    \/ \E c \in 1..MaxCalls : \E outcome \in {"success", "noSuggestion", "error"} :
          SuggestionArrives(c, outcome)
    \/ \E ms \in {debounceDelay - 1, debounceDelay} : Wait(ms)

CompletionSpec == Init /\ [][CompletionNext]_vars

(***************************************************************************)
(* Properties of the file writes and of the store.                         *)
(***************************************************************************)
\* C1: every file write, whether of a streamed write_file call, of apply-one
\* or of apply-all, targets a path that _isValidFilePath accepts.
C1_WritesTargetAcceptedPaths ==
    \A i \in 1..Len(io) : io[i].op = "write" => _isValidFilePath(io[i].path)

\* C2: when clearChat was handled while the response of a request was
\* streaming, the store holds no entry for that request once the response
\* has completed.
C2_NoEntryAfterClearedStream ==
    \A t \in 1..MaxTurns :
        (turns[t].pc = "done" /\ turns[t].clearedWhileStreaming)
            => turns[t].requestId \notin DOMAIN pendingRecommendations

\* C3: after a successful apply-one of (requestId, path) the recommendation is
\* no longer pending, so that a second apply-one of it finds nothing to write.
C3_AppliedRecommendationLeavesStore ==
    event.type = "applyOneEnd" => ~Stored(event.requestId, event.filePath)

\* C4: apply-all writes only recommendations the store holds under the
\* request id of the message; for an id without an entry it writes nothing.
C4_ApplyAllWritesStoredOnly ==
    event.type \in {"applyAllWrite", "applyAllEnd"} => event.storedPath

\* C5: apply-one for a request id without an entry, or for a path that no
\* recommendation stored under the id has, writes no file, schedules no
\* write or editor refresh, leaves the store as it is and posts one
\* not-found message.
C5_ApplyOneMissChangesNothing ==
    [][(/\ event'.type = "applyCodeChangeFromRequest"
        /\ ~Stored(event'.requestId, event'.filePath))
          => /\ io' = <<>>
             /\ applyOne' = applyOne
             /\ pendingRecommendations' = pendingRecommendations
             /\ Len(posted') = 1
             /\ posted'[1].text \in {"noRecommendationsForRequest",
                                     "noRecommendationForFile"}]_vars

\* a known request id, asked for a path it does not recommend: not found
C5_MissOnStoredRequest ==
    /\ event.type = "applyCodeChangeFromRequest"
    /\ event.stored
    /\ ~event.storedPath
    /\ applyOne.pc = "idle"

\* C6: when apply-all for a request id has run to its end (the results are
\* posted), the store holds no entry for the id, whatever the outcomes of the
\* writes were.
C6_ApplyAllEvicts ==
    (event.type = "applyAllEnd" /\ ~event.threw)
        => event.requestId \notin DOMAIN pendingRecommendations

\* apply-all of a stored request has ended with a failed write among its results
C6_EvictedAfterFailedWrite ==
    /\ event.type = "applyAllEnd"
    /\ ~event.threw
    /\ event.stored
    /\ \E i \in 1..Len(posted[1].data) : ~posted[1].data[i].ok

\* C7: apply-all attempts one write per recommendation of the batch, in the
\* order of the batch; a failed write is followed by the writes of the
\* remaining recommendations; the posted result has one outcome per
\* recommendation, in the same order.
C7_ApplyAllWritesEachInOrder ==
    [][(applyAll.pc = "writing" /\ applyAll' # applyAll)
          => LET recs == applyAll.recommendations
                 n == Len(applyAll.results) + 1
             IN  /\ n <= Len(recs)
                 /\ Len(io') = 1
                 /\ io'[1].op = "write"
                 /\ io'[1].path = recs[n].filePath
                 /\ io'[1].content = recs[n].code
                 /\ IF n < Len(recs)
                    THEN /\ applyAll'.pc = "writing"
                         /\ applyAll'.recommendations = recs
                         /\ applyAll'.results =
                               Append(applyAll.results,
                                      [filePath |-> recs[n].filePath, ok |-> io'[1].ok])
                    ELSE /\ applyAll'.pc = "idle"
                         /\ view => /\ Len(posted') = 1
                                    /\ Len(posted'[1].data) = Len(recs)
                                    /\ \A i \in 1..Len(recs) :
                                          posted'[1].data[i].filePath = recs[i].filePath]_vars

\* a batch whose first write failed and whose second write succeeded
C7_WriteAfterFailedWrite ==
    /\ event.type = "applyAllEnd"
    /\ Len(posted) = 1
    /\ Len(posted[1].data) >= 2
    /\ ~posted[1].data[1].ok
    /\ posted[1].data[2].ok

\* C8: handling rejectCodeChanges for a request id removes the entry of the
\* id from the store, posts one acknowledgement, and reads, writes and opens
\* no file.
C8_RejectEvictsAndAcknowledges ==
    event.type = "rejectCodeChanges"
        => /\ event.requestId \notin DOMAIN pendingRecommendations
           /\ Len(posted) = 1
           /\ posted[1].text = "rejected"
           /\ io = <<>>

\* a request that had an entry has been rejected
C8_RejectedStoredRequest == event.type = "rejectCodeChanges" /\ event.stored

\* C9: the recommendations of a chat turn's response are stored under the
\* request id generated at the start of that turn, also when another turn
\* starts before the first has finished streaming.
C9_StoredUnderOwnRequestId ==
    (event.type = "complete" /\ event.requestId \in DOMAIN pendingRecommendations)
        => event.requestId = turns[event.turn].requestId

\* C10: within each entry of the store no two recommendations have the same
\* filePath.
C10_PathsUniqueWithinEntry ==
    \A k \in DOMAIN pendingRecommendations :
        \A i, j \in 1..Len(pendingRecommendations[k]) :
            pendingRecommendations[k][i].filePath = pendingRecommendations[k][j].filePath
                => i = j

\* an entry of a response in which two blocks resolve to the same path
C10_EntryOfRepeatedPath ==
    \E k \in DOMAIN pendingRecommendations : \E stream \in Streams :
        /\ pendingRecommendations[k] = Detected[Concat(stream)]
        /\ Len(Recommendations(CodeBlocks(Concat(stream)), 1, ToolCallPaths(Concat(stream))))
              > Len(pendingRecommendations[k])

(***************************************************************************)
(* Properties of the extracted recommendations and of the store's entries. *)
(***************************************************************************)
\* C11: every recommendation the extractor returns, and so every
\* recommendation held in the store, has non-empty code.
C11_StoredCodeNonEmpty ==
    \A k \in DOMAIN pendingRecommendations :
        \A i \in 1..Len(pendingRecommendations[k]) :
            pendingRecommendations[k][i].code # ""

\* C12: every recommendation the extractor returns has a filePath that
\* _isValidFilePath accepts, whichever step resolved it.
C12_StoredPathsAccepted ==
    \A k \in DOMAIN pendingRecommendations :
        \A i \in 1..Len(pendingRecommendations[k]) :
            _isValidFilePath(pendingRecommendations[k][i].filePath)

\* C13: every request id present in the store maps to a non-empty sequence of
\* recommendations; no operation leaves an empty entry behind.
C13_NoEmptyEntry ==
    \A k \in DOMAIN pendingRecommendations : Len(pendingRecommendations[k]) > 0

\* a turn whose response has no recommendation has completed, and the store
\* holds nothing under its request id
C13_CompletedWithoutRecommendations ==
    /\ event.type = "complete"
    /\ Len(posted) = 1
    /\ posted[1].data = <<>>
    /\ event.requestId \notin DOMAIN pendingRecommendations

\* C14: immediately after clearChat is handled the store holds no entry for
\* any request id and the chat history is empty.
C14_ClearChatEmptiesStoreAndHistory ==
    event.type = "clearChat"
        => /\ DOMAIN pendingRecommendations = {}
           /\ chatHistory = <<>>

\* clearChat has been handled when the store held an entry and the history
\* a message
C14_ClearedStoredEntries ==
    /\ event.type = "clearChat"
    /\ event.stored
    /\ \E t \in 1..MaxTurns : turns[t].pc = "done"

(***************************************************************************)
(* Properties of the TTL sweep.                                            *)
(***************************************************************************)
\* C15: a sweep run at time now removes exactly the entries whose request id
\* embeds a timestamp more than 30 minutes before now, and leaves every other
\* entry as it was.
C15_SweepRemovesExactlyTheOld ==
    [][event'.type = "cleanupOldRecommendations"
          => /\ DOMAIN pendingRecommendations' \subseteq DOMAIN pendingRecommendations
             /\ \A k \in DOMAIN pendingRecommendations' :
                   pendingRecommendations'[k] = pendingRecommendations[k]
             /\ TestRequestId \in DOMAIN pendingRecommendations
                   => TestRequestId \in DOMAIN pendingRecommendations'
             /\ \A age \in SweepAges :
                   SweepId(age) \in DOMAIN pendingRecommendations
                       => (SweepId(age) \in DOMAIN pendingRecommendations'
                             <=> now - (StartTime + maxAge + TickMs - age) <= 30 * 60 * 1000)]_vars

\* a sweep met an entry 31 minutes old and one 29 minutes old: the first is
\* gone and the second is still there
C15_SweptOldKeptYoung ==
    /\ event.type = "cleanupOldRecommendations"
    /\ ticks = 0
    /\ {SweepId(maxAge + TickMs), SweepId(maxAge - TickMs)} \subseteq event.before
    /\ SweepId(maxAge + TickMs) \notin DOMAIN pendingRecommendations
    /\ SweepId(maxAge - TickMs) \in DOMAIN pendingRecommendations

\* C16: a pending entry that is more than 30 minutes old is eventually
\* removed from the store, without the user applying, rejecting or clearing.
C16_OldEntryEventuallyRemoved ==
    \A a, b \in 0..MaxTicks : \A random \in RandomSuffixes :
        (/\ "req_" \o ToString(StartTime + a * TickMs + b * (maxAge + TickMs)) \o "_" \o random
                \in DOMAIN pendingRecommendations
         /\ now - (StartTime + a * TickMs + b * (maxAge + TickMs)) > 30 * 60 * 1000)
        ~> ("req_" \o ToString(StartTime + a * TickMs + b * (maxAge + TickMs)) \o "_" \o random
               \notin DOMAIN pendingRecommendations)

(***************************************************************************)
(* Properties of the streaming tool-call interpreter.                      *)
(***************************************************************************)
\* C17: the tool calls dispatched for a response depend only on its text, not
\* on how the transport fragments it: two turns that have received the same
\* text have dispatched the same operations in the same order.
C17_DispatchIgnoresFragmentation ==
    \A t, u \in 1..MaxTurns :
        (/\ turns[t].pc = "stream" /\ turns[t].chunks = <<>>
         /\ turns[u].pc = "stream" /\ turns[u].chunks = <<>>
         /\ turns[t].fullResponse = turns[u].fullResponse)
            => turns[t].dispatched = turns[u].dispatched

\* C18: while a call is tracked, an opening tag of any kind that arrives in a
\* later chunk is ordinary text: the tracked kind stays as it was while the
\* call is in progress, and an operation dispatched at its end is of the
\* kind that was tracked.
C18_TrackedKindIsKept ==
    [][\A t \in 1..MaxTurns :
          (turns[t].pc = "stream" /\ turns[t].inToolCall /\ turns'[t] # turns[t])
              => /\ turns'[t].inToolCall => turns'[t].toolCallType = turns[t].toolCallType
                 /\ io' # <<>> => io'[1].op \o "_file" = turns[t].toolCallType]_vars

\* C19: no FileIO operation is performed for a tool call without closing tag,
\* with blank content between its tags or, for read and open, with a path
\* that _isValidFilePath rejects: an operation performed by a chunk step is of
\* a kind whose opening tag, non-blank content and closing tag the buffered
\* text holds in this order, and a read or open is of an accepted path.
C19_NoFileIoForRejectedCalls ==
    [][\A t \in 1..MaxTurns :
          (event'.type = "chunk" /\ event'.turn = t /\ io' # <<>>)
              => LET toolCall == turns[t].currentToolCall \o Head(turns[t].chunks)
                     complete(opening, closing) ==
                        \E i, j \in 1..Len(toolCall) :
                            /\ Sub(toolCall, i, i + Len(opening) - 1) = opening
                            /\ Sub(toolCall, j, j + Len(closing) - 1) = closing
                            /\ i + Len(opening) <= j
                            /\ \E p \in (i + Len(opening))..(j - 1) :
                                  CharAt(toolCall, p) \notin WhiteSpace
                 IN  /\ Len(io') = 1
                     /\ io'[1].op \in {"read", "write", "open"}
                     /\ complete("<" \o io'[1].op \o "_file>", "</" \o io'[1].op \o "_file>")
                     /\ io'[1].op \in {"read", "open"} => _isValidFilePath(io'[1].path)]_vars

\* the unterminated call, the call with blank content and the call whose path
\* is a sentence have been received, and none has led to a FileIO operation
C19_RejectedCallDropped ==
    /\ event.type = "chunk"
    /\ io = <<>>
    /\ \E t, u \in 1..MaxTurns :
          /\ turns[t].pc = "stream" /\ turns[t].chunks = <<>>
          /\ turns[t].fullResponse \in {"<read_file> </read_file>",
                                        "<open_file>run the server</open_file>"}
          /\ turns[t].dispatched = <<>>
          /\ turns[u].pc = "stream" /\ turns[u].chunks = <<>>
          /\ turns[u].fullResponse = "<open_file>app.py<"
          /\ turns[u].dispatched = <<>>

\* C20: a tracked call of kind K is completed, and the interpreter state
\* reset, only when the closing tag of kind K has been received; the closing
\* tag of another kind leaves the interpreter inside the call.
C20_CompletedByOwnClosingTag ==
    [][\A t \in 1..MaxTurns :
          (/\ turns[t].pc = "stream" /\ turns'[t].pc = "stream"
           /\ turns'[t] # turns[t]
           /\ turns[t].inToolCall \/ OpenedToolType(Head(turns[t].chunks)) # ""
           /\ ~turns'[t].inToolCall)
              => Includes(turns[t].currentToolCall \o Head(turns[t].chunks),
                          "</" \o (IF turns[t].inToolCall THEN turns[t].toolCallType
                                   ELSE OpenedToolType(Head(turns[t].chunks))) \o ">")]_vars

\* C21: the path of a read or open operation is exactly the trimmed text
\* between the opening tag of its kind and the closing tag that follows it in
\* the buffered chunks; text before the opening tag or after the closing tag
\* is no part of the path.
C21_PathIsTextBetweenTags ==
    [][\A t \in 1..MaxTurns :
          (/\ event'.type = "chunk" /\ event'.turn = t
           /\ io' # <<>>
           /\ io'[1].op \in {"read", "open"})
              => LET toolCall == turns[t].currentToolCall \o Head(turns[t].chunks)
                     between(opening, closing) ==
                        Sub(toolCall, IndexOf(toolCall, opening) + Len(opening),
                            IndexOfFrom(toolCall, closing, IndexOf(toolCall, opening)) - 1)
                 IN  io'[1].path = Trim(between("<" \o io'[1].op \o "_file>",
                                                "</" \o io'[1].op \o "_file>"))]_vars

\* C22: an accepted write call with trimmed inner text T performs exactly one
\* write: its path is the trimmed text of T before the first line break, its
\* content the text of T after the first line break.
C22_WriteSplitsFirstLine ==
    [][\A t \in 1..MaxTurns :
          (/\ event'.type = "chunk" /\ event'.turn = t
           /\ turns[t].toolCallType = "write_file"
               \/ OpenedToolType(Head(turns[t].chunks)) = "write_file"
           /\ io' # <<>>)
              => LET T == ToolCallInner(turns[t].currentToolCall \o Head(turns[t].chunks),
                                        "write_file")
                     firstLine(lineBreak) ==
                        IF lineBreak = 0 THEN T ELSE Sub(T, 1, lineBreak - 1)
                     rest(lineBreak) ==
                        IF lineBreak = 0 THEN "" ELSE Sub(T, lineBreak + 1, Len(T))
                 IN  /\ Len(io') = 1
                     /\ io'[1].op = "write"
                     /\ io'[1].path = Trim(firstLine(IndexOf(T, "\n")))
                     /\ io'[1].content = rest(IndexOf(T, "\n"))]_vars

\* a write whose content has two lines has been performed
C22_WroteTwoLines ==
    /\ event.type = "chunk"
    /\ io # <<>>
    /\ io[1].op = "write" /\ io[1].path = "n.txt" /\ io[1].content = "hi\nyo"

\* C23: text received while the interpreter is not inside a call, including
\* the text that precedes an opening tag in the same chunk, is forwarded
\* unmodified as an updateMessage before the next chunk is processed; a chunk
\* received inside a call is not forwarded.
C23_TextOutsideCallsForwarded ==
    [][\A t \in 1..MaxTurns :
          (event'.type = "chunk" /\ event'.turn = t)
              => LET chunk == Head(turns[t].chunks)
                     before(tag) == IF tag = 0 THEN chunk ELSE Sub(chunk, 1, tag - 1)
                     outside ==
                        before(FirstOf({IndexOf(chunk, OpeningTag(k)) : k \in ToolTypes} \ {0}))
                     forwarded == {posted'[i].text : i \in {j \in 1..Len(posted') :
                                        posted'[j].type = "updateMessage"}}
                 IN  IF turns[t].inToolCall THEN forwarded = {}
                     ELSE outside # "" => forwarded = {outside}]_vars

(***************************************************************************)
(* Properties of the extractor. They are read off the step that completes  *)
(* a turn: the response is the turn's fullResponse, the extracted list is  *)
(* what the step puts into the empty store under the current request id.   *)
(***************************************************************************)
\* C24: a response of N fenced blocks whose same-line headers are N distinct
\* paths that _isValidFilePath accepts yields exactly N recommendations, the
\* i-th with the i-th header as filePath (N = 1 and N = 2).
C24_OneRecommendationPerHeader ==
    [][\A t \in 1..MaxTurns :
          (/\ event'.type = "complete" /\ event'.turn = t
           /\ pendingRecommendations = EmptyMap)
              => LET extracted ==
                        IF currentRequestId \in DOMAIN pendingRecommendations'
                        THEN pendingRecommendations'[currentRequestId] ELSE <<>>
                     text(b) == FencedBlock(b.language, b.header, b.body)
                 IN  /\ \A b \in ExtractBlocks :
                           (_isValidFilePath(b.header) /\ turns[t].fullResponse = text(b))
                               => /\ Len(extracted) = 1
                                  /\ extracted[1].filePath = b.header
                     /\ \A b, c \in ExtractBlocks :
                           (/\ _isValidFilePath(b.header) /\ _isValidFilePath(c.header)
                            /\ b.header # c.header
                            /\ turns[t].fullResponse = text(b) \o "\n" \o text(c))
                               => /\ Len(extracted) = 2
                                  /\ extracted[1].filePath = b.header
                                  /\ extracted[2].filePath = c.header]_vars

\* C25: a block with language tag L, a same-line header that is a valid path
\* P and body B yields the recommendation {filePath: P, language: L, code: B},
\* code being the body without the line break before the closing fence: the
\* block go / main.go / func main(){} yields the code func main(){}.
C25_CodeIsBodyWithoutLastLineBreak ==
    [][\A t \in 1..MaxTurns :
          (/\ event'.type = "complete" /\ event'.turn = t
           /\ pendingRecommendations = EmptyMap)
              => LET extracted ==
                        IF currentRequestId \in DOMAIN pendingRecommendations'
                        THEN pendingRecommendations'[currentRequestId] ELSE <<>>
                 IN  \A b \in ExtractBlocks :
                        (/\ _isValidFilePath(b.header)
                         /\ turns[t].fullResponse = FencedBlock(b.language, b.header, b.body))
                            => \A i \in 1..Len(extracted) :
                                  extracted[i] = [filePath |-> b.header,
                                                  language |-> b.language,
                                                  code |-> Sub(b.body, 1, Len(b.body) - 1)]]_vars

\* C26: of two blocks that resolve to the same path (here by their equal
\* headers) at most one recommendation is emitted, with the code and the
\* language of the first block; the second block is never emitted, also when
\* a filter of the deduplication loop removes the first.
C26_FirstBlockOfAPathWins ==
    [][\A t \in 1..MaxTurns :
          (/\ event'.type = "complete" /\ event'.turn = t
           /\ pendingRecommendations = EmptyMap)
              => LET extracted ==
                        IF currentRequestId \in DOMAIN pendingRecommendations'
                        THEN pendingRecommendations'[currentRequestId] ELSE <<>>
                     text(b) == FencedBlock(b.language, b.header, b.body)
                 IN  \A b, c \in ExtractBlocks :
                        (/\ _isValidFilePath(b.header) /\ b.header = c.header
                         /\ b.body # c.body
                         /\ turns[t].fullResponse = text(b) \o "\n" \o text(c))
                            => /\ Len(extracted) <= 1
                               /\ \A i \in 1..Len(extracted) :
                                     /\ extracted[i].filePath = b.header
                                     /\ extracted[i].language = b.language
                                     /\ extracted[i].code \in
                                            {b.body, Sub(b.body, 1, Len(b.body) - 1)}]_vars

\* C27: a block that no header, tool-call tag, body comment or adopted
\* tool-call path resolves is given the path code<N>.<ext>, N its ordinal in
\* the response, ext from the language table and .txt when the language is
\* missing or unknown. Stated for the blocks that carry a language tag.
C27_UnresolvedBlockIsSynthesized ==
    [][\A t \in 1..MaxTurns :
          (/\ event'.type = "complete" /\ event'.turn = t
           /\ pendingRecommendations = EmptyMap)
              => LET extracted ==
                        IF currentRequestId \in DOMAIN pendingRecommendations'
                        THEN pendingRecommendations'[currentRequestId] ELSE <<>>
                     text(b) == FencedBlock(b.language, b.header, b.body)
                     ext(language) == IF language = "go" THEN ".go" ELSE ".txt"
                     emitted(filePath) ==
                        \E i \in 1..Len(extracted) : extracted[i].filePath = filePath
                 IN  /\ \A b \in ExtractBlocks :
                           (/\ b.header = "" /\ b.language # ""
                            /\ turns[t].fullResponse = text(b))
                               => emitted("code1" \o ext(b.language))
                     /\ \A b, c \in ExtractBlocks :
                           (/\ c.header = "" /\ c.language # ""
                            /\ turns[t].fullResponse = text(b) \o "\n" \o text(c))
                               => emitted("code2" \o ext(c.language))]_vars

\* C28: a block whose same-line header is present and is rejected by
\* _isValidFilePath, as given and without its leading comment marker, yields
\* no recommendation: it is skipped, not given a default or synthesized path.
\* Stated for the headers without tool-call tag and the bodies without path
\* comment, where a default is all that can still resolve the block.
C28_RejectedHeaderSkipsBlock ==
    [][\A t \in 1..MaxTurns :
          (/\ event'.type = "complete" /\ event'.turn = t
           /\ pendingRecommendations = EmptyMap)
              => \A header \in ExtractHeaders, body \in ExtractBodies :
                    (/\ header # ""
                     /\ ~_isValidFilePath(header)
                     /\ ~_isValidFilePath(CleanedHeader(header))
                     /\ ~Includes(header, "<")
                     /\ CommentPath(body) = ""
                     /\ turns[t].fullResponse = FencedBlock("go", header, body))
                        => currentRequestId \notin DOMAIN pendingRecommendations']_vars

(***************************************************************************)
(* Properties of the Classifier.                                           *)
(***************************************************************************)
\* C30: a string that _isValidFilePath accepts contains no < or >, does not
\* start with // or #, has no leading or trailing space and no double space,
\* does not contain http://, https://, curl or localhost, and its first
\* segment, up to the first space, slash, backslash or dot, is no banned
\* command word.
C30_AcceptedPathsAreClean ==
    (event.type = "_isValidFilePath" /\ event.isValid)
        => LET path == event.filePath
               segment(cut) == IF cut = 0 THEN path ELSE Sub(path, 1, cut - 1)
               firstSegment ==
                  segment(FirstOf({i \in 1..Len(path) :
                                      CharAt(path, i) \in {" ", "/", "\\", "."}}))
           IN  /\ \A i \in 1..Len(path) : CharAt(path, i) \notin {"<", ">"}
               /\ Sub(path, 1, 2) # "//" /\ Sub(path, 1, 1) # "#"
               /\ Sub(path, 1, 1) # " " /\ Sub(path, Len(path), Len(path)) # " "
               /\ \A i \in 1..Len(path) : Sub(path, i, i + 1) # "  "
               /\ \A i \in 1..Len(path) :
                     /\ Sub(path, i, i + 6) # "http://"
                     /\ Sub(path, i, i + 7) # "https://"
                     /\ Sub(path, i, i + 3) # "curl"
                     /\ Sub(path, i, i + 8) # "localhost"
               /\ firstSegment \notin
                     {"python", "node", "npm", "yarn", "go", "rustc", "cargo", "java",
                      "javac", "gcc", "g++", "clang", "clang++", "php", "ruby", "perl",
                      "bash", "sh", "zsh", "fish", "powershell", "cmd"}

\* a path of two words, or a path without extension under a directory, has
\* been accepted
C30_AcceptedPathWithSpace ==
    /\ event.type = "_isValidFilePath"
    /\ event.isValid
    /\ event.filePath \in {"see main.go", "src/main"}

(***************************************************************************)
(* Properties of the validator of tool calls.                              *)
(***************************************************************************)
\* C31: _isValidToolCall(text, kind) is true if and only if the text holds an
\* opening tag of the kind that is followed later by a closing tag of the
\* kind, with a character that is no white space between the two: between
\* an opening tag and the next closing tag after it.
C31_ValidIffTaggedContent ==
    event.type = "_isValidToolCall"
        => LET text == event.toolCall
               tagAt(tag, i) == Sub(text, i, i + Len(tag) - 1) = tag
               tagged(opening, closing) ==
                  \E i, j \in 1..Len(text) :
                      /\ tagAt(opening, i) /\ tagAt(closing, j)
                      /\ i + Len(opening) <= j
                      /\ \A q \in (i + Len(opening))..(j - 1) : ~tagAt(closing, q)
                      /\ \E p \in (i + Len(opening))..(j - 1) :
                            CharAt(text, p) \notin WhiteSpace
           IN  event.isValid <=> tagged("<" \o event.toolType \o ">",
                                        "</" \o event.toolType \o ">")

(***************************************************************************)
(* Further properties of the streaming tool-call interpreter.              *)
(***************************************************************************)
\* C32: tool calls are dispatched in the order in which their closing tags
\* arrive, each within the step of the chunk that brings its closing tag, and
\* that step leaves the interpreter state reset for the next chunk.
C32_DispatchInArrivalOrder ==
    [][\A t \in 1..MaxTurns :
          (event'.type = "chunk" /\ event'.turn = t /\ turns'[t].pc = "stream")
              => LET chunk == Head(turns[t].chunks)
                     inCall == \/ turns[t].inToolCall
                               \/ \E k \in ToolTypes : Includes(chunk, "<" \o k \o ">")
                     closed == \E k \in ToolTypes :
                                  Includes(turns[t].currentToolCall \o chunk, "</" \o k \o ">")
                 IN  /\ turns'[t].chunks = Tail(turns[t].chunks)
                     /\ turns'[t].dispatched =
                           turns[t].dispatched \o
                              [i \in 1..Len(io') |-> [op |-> io'[i].op, path |-> io'[i].path,
                                                      content |-> io'[i].content]]
                     /\ io' # <<>> => inCall /\ closed
                     /\ (inCall /\ closed)
                           => /\ ~turns'[t].inToolCall
                              /\ turns'[t].currentToolCall = ""
                              /\ turns'[t].toolCallType = ""]_vars

\* the read_file call of the first fragment and the open_file call of the
\* second have been dispatched, in this order
C32_TwoCallsDispatched ==
    \E t \in 1..MaxTurns :
        /\ turns[t].pc = "stream"
        /\ turns[t].chunks = <<>>
        /\ ~turns[t].inToolCall
        /\ turns[t].dispatched = <<[op |-> "read", path |-> "a.txt", content |-> ""],
                                    [op |-> "open", path |-> "app.py", content |-> ""]>>

(***************************************************************************)
(* Further properties of the extractor.                                    *)
(***************************************************************************)
\* C33: for a block without same-line header, a path comment on the sixth or
\* a later line below the fence line is never used as the target path.
C33_CommentBeyondFifthLineUnused ==
    [][\A t \in 1..MaxTurns :
          (/\ event'.type = "complete" /\ event'.turn = t
           /\ pendingRecommendations = EmptyMap)
              => LET extracted ==
                        IF currentRequestId \in DOMAIN pendingRecommendations'
                        THEN pendingRecommendations'[currentRequestId] ELSE <<>>
                 IN  \A n \in 6..7 :
                        turns[t].fullResponse = CommentAtLine(n)
                            => \A i \in 1..Len(extracted) :
                                  extracted[i].filePath # "util.go"]_vars

\* C34: at every chunk boundary of a streaming response the interpreter
\* state is consistent: outside a call the buffer is empty and there is no
\* kind, inside a call the kind is one of the three and the buffer holds an
\* opening tag; also after accepted, rejected and failed dispatches.
C34_InterpreterStateConsistent ==
    \A t \in 1..MaxTurns :
        turns[t].pc = "stream"
            => IF turns[t].inToolCall
               THEN /\ turns[t].toolCallType \in {"read_file", "write_file", "open_file"}
                    /\ \E k \in {"read_file", "write_file", "open_file"} :
                          Includes(turns[t].currentToolCall, "<" \o k \o ">")
               ELSE turns[t].currentToolCall = "" /\ turns[t].toolCallType = ""

\* one turn is inside an open_file call while the file operation of the
\* other turn's call has just failed
C34_InsideCallAfterFailedDispatch ==
    /\ event.type = "chunk"
    /\ io # <<>>
    /\ ~io[1].ok
    /\ \E t, u \in 1..MaxTurns :
          /\ turns[t].pc = "stream" /\ turns[t].inToolCall
          /\ turns[t].toolCallType = "open_file"
          /\ event.turn = u
          /\ turns[u].pc = "stream" /\ ~turns[u].inToolCall

(***************************************************************************)
(* Properties of the handlers when the webview is disposed under them.     *)
(***************************************************************************)
\* C35: when the webview is disposed while apply-all awaits its file writes,
\* apply-all still evicts the request id from the store when it finishes.
C35_ApplyAllEvictsAfterDispose ==
    (event.type = "applyAllEnd" /\ event.stored /\ ~view)
        => event.requestId \notin DOMAIN pendingRecommendations

\* C36: _handleChatMessage never ends with an exception that nothing
\* catches, however webview disposal and transport failure interleave with
\* the response in flight.
C36_ChatTurnNeverThrows ==
    event.type \in {"contextReady", "chunk", "streamError", "complete"} => ~event.threw

(***************************************************************************)
(* Properties of a chat turn as a whole.                                   *)
(***************************************************************************)
\* C37: each tool call of a response is dispatched at most once: while
\* streaming no more operations are dispatched than closing tags have
\* arrived, and the step that processes the completed response performs no
\* FileIO operation, so a write_file call causes at most one write.
C37_ToolCallsDispatchedOnce ==
    [][\A t \in 1..MaxTurns :
          LET closingTags(text) ==
                 Cardinality({ik \in (1..Len(text)) \X ToolTypes :
                                 Sub(text, ik[1], ik[1] + Len(ik[2]) + 2) = "</" \o ik[2] \o ">"})
          IN  /\ (event'.type = "complete" /\ event'.turn = t) => io' = <<>>
              /\ turns'[t].pc = "stream"
                    => Len(turns'[t].dispatched) <= closingTags(turns'[t].fullResponse)]_vars

\* the response of a turn that wrote a file while streaming has been completed
C37_CompletedAfterStreamedWrite ==
    /\ event.type = "complete"
    /\ io = <<>>
    /\ \E i \in 1..Len(event.dispatched) : event.dispatched[i].op = "write"

\* C38: after any sequence of chat turns, clearChat events and transport
\* failures the chat history alternates between user and assistant messages
\* and starts with a user message.
C38_HistoryAlternates ==
    \A i \in 1..Len(chatHistory) :
        chatHistory[i] = IF i % 2 = 1 THEN "user" ELSE "assistant"

\* C39: apply-all, apply-one and reject for one request id leave the entry of
\* every other request id in the store, with the list it had, and an entry
\* that stays in the store keeps its list of recommendations.
C39_OtherEntriesUntouched ==
    [][\A k \in DOMAIN pendingRecommendations :
          /\ k # event'.requestId =>
                /\ k \in DOMAIN pendingRecommendations'
                /\ pendingRecommendations'[k] = pendingRecommendations[k]
          /\ k \in DOMAIN pendingRecommendations' =>
                pendingRecommendations'[k] = pendingRecommendations[k]]_vars

\* one request has been rejected or applied whole and evicted while the
\* entries of two others are in the store, with different lists
C39_EvictedBesideOthers ==
    /\ event.type \in {"rejectCodeChanges", "applyAllEnd"}
    /\ event.stored
    /\ event.requestId \notin DOMAIN pendingRecommendations
    /\ \E j, k \in DOMAIN pendingRecommendations :
          pendingRecommendations[j] # pendingRecommendations[k]

\* C40: at most one invocation of getSuggestions is waiting for the model; an
\* invocation that begins while isProcessing is set returns an empty list and
\* sends nothing to the model; and when an accepted invocation returns, with
\* an item, without a suggestion or through the catch block, isProcessing is
\* false.
C40_OneCompletionInFlight ==
    [][/\ Cardinality({c \in 1..MaxCalls : calls'[c] # "idle"}) <= 1
       /\ (event'.type = "getSuggestions" /\ isProcessing) =>
             /\ event'.returned /\ event'.items = 0
             /\ calls' = calls
       /\ (event'.type \in {"workspaceContext", "suggestion"} /\ event'.returned) =>
             ~isProcessing']_vars

\* an invocation that began when debounceDelay had passed, while an earlier
\* one was waiting for the model, has returned an empty list
C40_RefusedWhileProcessing ==
    /\ event.type = "getSuggestions"
    /\ event.path = "debounced"
    /\ now - lastRequestTime >= debounceDelay
    /\ \E c \in 1..MaxCalls : calls[c] = "model"

=============================================================================
